---- MODULE Spec2Model ----
(***************************************************************************)
(* Model of the pricing and valuation engine of NovasX                     *)
(* (pricing_module.py, value_predictor.py).                                *)
(*                                                                         *)
(* The engine computes in Python floats (IEEE-754 binary64).  The curve    *)
(* breakpoints are integer valued, but slopes such as 6600/60000 are not   *)
(* representable, so every product and sum is rounded.  The model keeps    *)
(* that rounding: a float is a record [s, m, e] standing for s * m * 2^e   *)
(* with m a 53-bit natural number, and every arithmetic operator rounds    *)
(* to nearest, ties to even, as the hardware does.  Natural numbers wider  *)
(* than the model checker's integers are little-endian sequences of limbs. *)
(***************************************************************************)
EXTENDS Integers, Sequences, FiniteSets, TLC

(***************************************************************************)
(* Natural numbers of any width: little-endian limbs in base 2^7, no       *)
(* leading zero limb; <<>> is zero.                                        *)
(***************************************************************************)
LimbBits == 7
Base == 2^LimbBits

Max(a, b) == IF a >= b THEN a ELSE b
Min(a, b) == IF a <= b THEN a ELSE b
Abs(n) == IF n < 0 THEN -n ELSE n
Sgn(n) == IF n < 0 THEN -1 ELSE 1

RECURSIVE BNorm(_)
BNorm(a) ==
    IF Len(a) > 0 /\ a[Len(a)] = 0 THEN BNorm(SubSeq(a, 1, Len(a) - 1)) ELSE a

RECURSIVE BFromNat(_)
BFromNat(n) == IF n = 0 THEN <<>> ELSE <<n % Base>> \o BFromNat(n \div Base)

Limb(a, i) == IF i <= Len(a) THEN a[i] ELSE 0

RECURSIVE BAddFrom(_, _, _, _)
BAddFrom(a, b, i, c) ==
    IF i > Len(a) /\ i > Len(b)
    THEN (IF c = 0 THEN <<>> ELSE <<c>>)
    ELSE LET t == Limb(a, i) + Limb(b, i) + c
         IN  <<t % Base>> \o BAddFrom(a, b, i + 1, t \div Base)

BAdd(a, b) == BAddFrom(a, b, 1, 0)

\* a - b for a >= b
RECURSIVE BSubFrom(_, _, _, _)
BSubFrom(a, b, i, c) ==
    IF i > Len(a)
    THEN <<>>
    ELSE LET t == Limb(a, i) - Limb(b, i) - c
         IN  IF t < 0 THEN <<t + Base>> \o BSubFrom(a, b, i + 1, 1)
                      ELSE <<t>> \o BSubFrom(a, b, i + 1, 0)

BSub(a, b) == BNorm(BSubFrom(a, b, 1, 0))

\* -1, 0, 1 as a < b, a = b, a > b
RECURSIVE BCmpFrom(_, _, _)
BCmpFrom(a, b, i) ==
    IF i = 0 THEN 0
    ELSE IF a[i] < b[i] THEN -1
    ELSE IF a[i] > b[i] THEN 1
    ELSE BCmpFrom(a, b, i - 1)

BCmp(a, b) ==
    IF Len(a) < Len(b) THEN -1
    ELSE IF Len(a) > Len(b) THEN 1
    ELSE BCmpFrom(a, b, Len(a))

\* a * d for a limb-sized d (0 <= d < Base)
RECURSIVE BMulLimbFrom(_, _, _, _)
BMulLimbFrom(a, d, i, c) ==
    IF i > Len(a)
    THEN (IF c = 0 THEN <<>> ELSE <<c>>)
    ELSE LET t == a[i] * d + c
         IN  <<t % Base>> \o BMulLimbFrom(a, d, i + 1, t \div Base)

BMulLimb(a, d) == IF d = 0 THEN <<>> ELSE BMulLimbFrom(a, d, 1, 0)

\* a * d + Base * rest
BMulPlus(rest, a, d) ==
    IF rest = <<>> THEN BMulLimb(a, d)
    ELSE BAdd(BMulLimb(a, d), <<0>> \o rest)

RECURSIVE BMul(_, _)
BMul(a, b) ==
    IF a = <<>> \/ b = <<>> THEN <<>>
    ELSE BMulPlus(BMul(a, Tail(b)), a, Head(b))

\* floor(a / d) and a mod d for 0 < d < 2^24
RECURSIVE BRemFrom(_, _, _, _)
BRemFrom(a, d, i, r) ==
    IF i = 0 THEN r ELSE BRemFrom(a, d, i - 1, (r * Base + a[i]) % d)

BModSmall(a, d) == BRemFrom(a, d, Len(a), 0)

RECURSIVE BQuotFrom(_, _, _, _)
BQuotFrom(a, d, i, r) ==
    IF i = 0 THEN <<>>
    ELSE LET cur == r * Base + a[i]
         IN  BQuotFrom(a, d, i - 1, cur % d) \o <<cur \div d>>

BDivSmall(a, d) == BNorm(BQuotFrom(a, d, Len(a), 0))

RECURSIVE Zeros(_)
Zeros(n) == IF n = 0 THEN <<>> ELSE <<0>> \o Zeros(n - 1)

\* a * 2^n and floor(a / 2^n)
BShl(a, n) ==
    IF a = <<>> THEN <<>>
    ELSE Zeros(n \div LimbBits) \o BMulLimb(a, 2^(n % LimbBits))

BShr(a, n) ==
    IF n \div LimbBits >= Len(a) THEN <<>>
    ELSE BDivSmall(SubSeq(a, n \div LimbBits + 1, Len(a)), 2^(n % LimbBits))

RECURSIVE NatBits(_)
NatBits(n) == IF n = 0 THEN 0 ELSE 1 + NatBits(n \div 2)

BitLen(a) == IF a = <<>> THEN 0 ELSE (Len(a) - 1) * LimbBits + NatBits(a[Len(a)])

\* bit i of a (bit 0 is the lowest)
BBit(a, i) == (Limb(a, i \div LimbBits + 1) \div 2^(i % LimbBits)) % 2

\* whether the n lowest bits of a are all zero
BLowZero(a, n) == BShl(BShr(a, n), n) = a

(***************************************************************************)
(* Python floats.  [s, m, e] is s * m * 2^e with s in {1, -1} and m of     *)
(* exactly MantBits bits; zero is FZero.  The exponent is unbounded: every *)
(* finite value of the engine lies far inside the binary64 range, so       *)
(* overflow and subnormals do not arise.  The infinities and NaN come only *)
(* from a numpy division by zero; the section of value_predictor.py adds   *)
(* them.                                                                   *)
(***************************************************************************)
MantBits == 53

FZero == [s |-> 1, m |-> <<>>, e |-> 0]

\* q or q + 1, as rounding to nearest, ties to even, asks: `half` is the
\* first dropped bit, `exact` says that the bits after it are all zero
FRoundUp(q, half, exact) ==
    IF half /\ (~exact \/ q[1] % 2 = 1) THEN BAdd(q, <<1>>) ELSE q

\* s * q * 2^e for q of MantBits bits, or of one more after a carry
FNormal(s, q, e) ==
    IF BitLen(q) > MantBits
    THEN [s |-> s, m |-> BShr(q, 1), e |-> e + 1]
    ELSE [s |-> s, m |-> q, e |-> e]

\* s * n * 2^e for n of L bits: exact when it fits, else the lowest
\* L - MantBits bits are rounded away
FRoundBits(s, n, e, L) ==
    IF L <= MantBits
    THEN [s |-> s, m |-> BShl(n, MantBits - L), e |-> e - (MantBits - L)]
    ELSE FNormal(s,
                 FRoundUp(BShr(n, L - MantBits),
                          BBit(n, L - MantBits - 1) = 1,
                          BLowZero(n, L - MantBits - 1)),
                 e + (L - MantBits))

\* the float nearest to s * n * 2^e, ties to even
FRound(s, n, e) == IF n = <<>> THEN FZero ELSE FRoundBits(s, n, e, BitLen(n))

\* float(n) for an integer n
FFromInt(n) == FRound(Sgn(n), BFromNat(Abs(n)), 0)

\* s * nn / (ad * 2^k), rounded once: the quotient, with one more bit that
\* says whether a remainder was left, is long enough to round correctly
FQuotient(s, nn, ad, k) ==
    FRound(s,
           BAdd(BShl(BDivSmall(nn, ad), 1),
                IF BModSmall(nn, ad) = 0 THEN <<>> ELSE <<1>>),
           -k - 1)

\* s * an / ad with an scaled by 2^k
FScaled(s, an, ad, k) == FQuotient(s, BShl(BFromNat(an), k), ad, k)

\* n / d rounded once, for integers n and d with 0 < |d| < 2^24: the float
\* quotient of two integer-valued floats, and the float a decimal literal
\* such as 0.3 (= 3/10) denotes
FFromRatio(n, d) ==
    FScaled(Sgn(n) * Sgn(d), Abs(n), Abs(d),
            Max(0, MantBits + 3 + NatBits(Abs(d)) - NatBits(Abs(n))))

FNeg(a) == IF a = FZero THEN FZero ELSE [a EXCEPT !.s = -a.s]

FMul(a, b) == FRound(a.s * b.s, BMul(a.m, b.m), a.e + b.e)

\* sa * am * 2^e + sb * bm * 2^e, where c compares am with bm
FAddAligned(sa, am, sb, bm, e, c) ==
    FRound(IF c >= 0 THEN sa ELSE sb,
           IF sa = sb THEN BAdd(am, bm)
           ELSE IF c >= 0 THEN BSub(am, bm) ELSE BSub(bm, am),
           e)

\* both mantissas brought to the exponent e
FAddAt(a, b, e) ==
    FAddAligned(a.s, BShl(a.m, a.e - e), b.s, BShl(b.m, b.e - e), e,
                BCmp(BShl(a.m, a.e - e), BShl(b.m, b.e - e)))

FAdd(a, b) ==
    IF a = FZero THEN b
    ELSE IF b = FZero THEN a
    ELSE FAddAt(a, b, Min(a.e, b.e))

FSub(a, b) == FAdd(a, FNeg(b))

\* -1, 0, 1 as a < b, a = b, a > b
FSign(d) == IF d = FZero THEN 0 ELSE d.s

FCmp(a, b) == FSign(FSub(a, b))

\* the natural number a bignum denotes (it must fit an integer)
RECURSIVE BToNat(_)
BToNat(a) == IF a = <<>> THEN 0 ELSE Head(a) + Base * BToNat(Tail(a))

\* n / 2^k rounded to the nearest integer, ties to even
BRoundShift(n, k) ==
    IF k <= 0 THEN BShl(n, -k)
    ELSE FRoundUp(BShr(n, k) \o (IF BShr(n, k) = <<>> THEN <<0>> ELSE <<>>),
                  BBit(n, k - 1) = 1, BLowZero(n, k - 1))

\* the limbs n - 2 .. n + 1 of a as a number, n >= 3
TopAt(a, n) ==
    ((Limb(a, n + 1) * Base + Limb(a, n)) * Base + Limb(a, n - 1)) * Base
    + Limb(a, n - 2)

\* long division of bignums, limb by limb, for a divisor b of 3 limbs or
\* more: a digit of the quotient is estimated from the highest limbs, never
\* too high, and raised while the remainder allows
RECURSIVE DivFix(_, _, _)
DivFix(r, b, d) ==
    IF BCmp(r, b) >= 0 THEN DivFix(BSub(r, b), b, d + 1)
    ELSE [r |-> r, d |-> d]

DivDigit(rem, b, d) == DivFix(BSub(rem, BMulLimb(b, d)), b, d)

RECURSIVE BDivFrom(_, _, _, _, _)
BDivNext(a, b, i, step, q) ==
    BDivFrom(a, b, i - 1, step.r, <<step.d>> \o q)

BDivAt(a, b, i, rem, q) ==
    IF BCmp(rem, b) < 0 THEN BDivFrom(a, b, i - 1, rem, <<0>> \o q)
    ELSE BDivNext(a, b, i,
                  DivDigit(rem, b,
                           TopAt(rem, Len(b)) \div (TopAt(b, Len(b)) + 1)),
                  q)

BDivFrom(a, b, i, rem, q) ==
    IF i = 0 THEN [q |-> BNorm(q), r |-> rem]
    ELSE BDivAt(a, b, i, BNorm(<<a[i]>> \o rem), q)

\* floor(a / b) and a mod b
BDivMod(a, b) == BDivFrom(a, b, Len(a), <<>>, <<>>)

\* twice a quotient, plus 1 if a remainder is left: enough to round by
Sticky(qr) == BAdd(BShl(qr.q, 1), IF qr.r = <<>> THEN <<>> ELSE <<1>>)

\* a / b for floats, b # 0, rounded once
FDiv(a, b) ==
    IF a = FZero THEN FZero
    ELSE FRound(a.s * b.s,
                Sticky(BDivMod(BShl(a.m, MantBits + 3), b.m)),
                a.e - b.e - (MantBits + 3) - 1)

\* floor(sqrt(n)) of a natural number n, by Newton's iteration from x, an
\* x not below the root
RECURSIVE NatSqrtFrom(_, _)
NatSqrtNext(n, x, y) == IF y >= x THEN x ELSE NatSqrtFrom(n, y)

NatSqrtFrom(n, x) == NatSqrtNext(n, x, (x + n \div x) \div 2)

\* the same for a bignum
RECURSIVE BSqrtFrom(_, _)
BSqrtNext(n, x, y) == IF BCmp(y, x) >= 0 THEN x ELSE BSqrtFrom(n, y)

BSqrtFrom(n, x) == BSqrtNext(n, x, BShr(BAdd(x, BDivMod(n, x).q), 1))

\* floor(sqrt(n)) for n < 2^(2 * h), h >= 15: the start is the root of
\* top = floor(n / 2^(2 * h - 30)), rounded up and scaled
BSqrtTop(n, top, h) ==
    BSqrtFrom(n, BShl(BFromNat(NatSqrtFrom(top, 2^15) + 1), h - 15))

BSqrt(n, h) == BSqrtTop(n, BToNat(BShr(n, 2 * h - 30)), h)

\* twice the root, plus 1 if n is no square
SqrtSticky(n, r) ==
    BAdd(BShl(r, 1), IF BMul(r, r) = n THEN <<>> ELSE <<1>>)

\* sqrt of a float a >= 0, rounded once: the mantissa is scaled by 2^k to
\* 110 or 111 bits with an even exponent left
FSqrtScaled(m, e, k) ==
    FRound(1, SqrtSticky(BShl(m, k), BSqrt(BShl(m, k), MantBits + 3)),
           (e - k) \div 2 - 1)

FSqrt(a) ==
    IF a = FZero THEN FZero
    ELSE FSqrtScaled(a.m, a.e, MantBits + 4 + ((a.e + MantBits + 4) % 2))

RECURSIVE BPow(_, _)
BPow(m, y) == IF y = 0 THEN <<1>> ELSE BMul(BPow(m, y - 1), m)

FPow(x, y) ==
    IF y = 0 THEN FFromInt(1)
    ELSE IF x = FZero THEN FZero
    ELSE FRound(IF y % 2 = 0 THEN 1 ELSE x.s, BPow(x.m, y), x.e * y)

\* math.rint: the nearest integer, ties to even, as a float
FRint(f) == FRound(f.s, BNorm(BRoundShift(f.m, -f.e)), 0)

(***************************************************************************)
(* Names.  The source keys its tables by Chinese strings; the model uses   *)
(* the transliteration the source itself gives each category in            *)
(* get_categories' pinyin_mapping ("sannong" for the first category,       *)
(* "yingshizongyi" for the film-and-variety category) and, for the four    *)
(* platforms, the names of the source's per-platform tables (douyin,       *)
(* xiaohongshu, bilibili, kuaishou).  Follower counts and prices are in    *)
(* the source's units.                                                     *)
(***************************************************************************)
\* the categories in the order build_douyin_functions inserts them
CategoryKeys ==
    <<
      "sannong", "erciyan", "jiankang", "xingquaihao", "qita",
      "yiliaojiankang", "yule", "jiajujiazhuang", "youmogaoxiao",
      "yingshizongyi", "qingganxinli", "caiyijineng", "jiaoyupeixun",
      "wenhua", "lvyou", "shishizixun", "shishang", "muyingyuer", "qiche",
      "youxi", "shenghuo", "kexueKepu", "keji", "meizhuang",
      "meironggenghu", "meishi", "zhichang", "mengchong", "caijing",
      "yundongjianshen", "yinyue", "yanzhi">>

\* the breakpoint list build_douyin_functions gives each category
BreakpointTable ==
    [sannong |->
        <<<<0, 200>>, <<60000, 6800>>, <<300000, 15200>>, <<750000, 32000>>,
          <<3000000, 68000>>, <<7500000, 250000>>, <<20000000, 420000>>>>,
     erciyan |->
        <<<<0, 300>>, <<60000, 5500>>, <<300000, 11200>>, <<750000, 26000>>,
          <<3000000, 45000>>, <<7500000, 180000>>, <<20000000, 260000>>>>,
     jiankang |->
        <<<<0, 500>>, <<60000, 8000>>, <<300000, 18000>>, <<750000, 38000>>,
          <<3000000, 110000>>, <<7500000, 220000>>, <<20000000, 350000>>>>,
     xingquaihao |->
        <<<<0, 0>>, <<60000, 6000>>, <<300000, 15000>>, <<750000, 35000>>,
          <<3000000, 70000>>, <<7500000, 150000>>, <<20000000, 300000>>>>,
     qita |->
        <<<<0, 0>>, <<60000, 7500>>, <<300000, 16000>>, <<750000, 30000>>,
          <<3000000, 60000>>, <<7500000, 140000>>, <<20000000, 280000>>>>,
     yiliaojiankang |->
        <<<<0, 1000>>, <<60000, 8500>>, <<300000, 20000>>, <<750000, 45000>>,
          <<3000000, 95000>>, <<7500000, 200000>>, <<20000000, 400000>>>>,
     yule |->
        <<<<0, 0>>, <<60000, 5000>>, <<300000, 12000>>, <<750000, 25000>>,
          <<3000000, 50000>>, <<7500000, 100000>>, <<20000000, 200000>>>>,
     jiajujiazhuang |->
        <<<<0, 0>>, <<60000, 10000>>, <<300000, 21000>>, <<750000, 52000>>,
          <<3000000, 78000>>, <<7500000, 120000>>, <<20000000, 220000>>>>,
     youmogaoxiao |->
        <<<<0, 0>>, <<60000, 7000>>, <<300000, 19000>>, <<750000, 45000>>,
          <<3000000, 90000>>, <<7500000, 200000>>, <<20000000, 400000>>>>,
     yingshizongyi |->
        <<<<0, 2500>>, <<60000, 7000>>, <<300000, 23500>>, <<750000, 52500>>,
          <<3000000, 126000>>, <<7500000, 220000>>, <<20000000, 400000>>>>,
     qingganxinli |->
        <<<<0, 500>>, <<60000, 8500>>, <<300000, 22000>>, <<750000, 60000>>,
          <<3000000, 110000>>, <<7500000, 210000>>, <<20000000, 450000>>>>,
     caiyijineng |->
        <<<<0, 0>>, <<60000, 9500>>, <<300000, 25000>>, <<750000, 50000>>,
          <<3000000, 90000>>, <<7500000, 160000>>, <<20000000, 300000>>>>,
     jiaoyupeixun |->
        <<<<0, 0>>, <<60000, 8000>>, <<300000, 22000>>, <<750000, 45000>>,
          <<3000000, 85000>>, <<7500000, 180000>>, <<20000000, 380000>>>>,
     wenhua |->
        <<<<0, 0>>, <<60000, 6000>>, <<300000, 18000>>, <<750000, 40000>>,
          <<3000000, 80000>>, <<7500000, 160000>>, <<20000000, 300000>>>>,
     lvyou |->
        <<<<0, 0>>, <<60000, 6500>>, <<300000, 20000>>, <<750000, 50000>>,
          <<3000000, 95000>>, <<7500000, 180000>>, <<20000000, 450000>>>>,
     shishizixun |->
        <<<<0, 0>>, <<60000, 7000>>, <<300000, 18000>>, <<750000, 40000>>,
          <<3000000, 75000>>, <<7500000, 140000>>, <<20000000, 280000>>>>,
     shishang |->
        <<<<0, 1000>>, <<60000, 9500>>, <<300000, 35000>>, <<750000, 75000>>,
          <<3000000, 130000>>, <<7500000, 250000>>, <<20000000, 1000000>>>>,
     muyingyuer |->
        <<<<0, 0>>, <<60000, 9000>>, <<300000, 22000>>, <<750000, 60000>>,
          <<3000000, 95000>>, <<7500000, 180000>>, <<20000000, 360000>>>>,
     qiche |->
        <<<<0, 500>>, <<60000, 8000>>, <<300000, 32000>>, <<750000, 98000>>,
          <<3000000, 150000>>, <<7500000, 220000>>, <<20000000, 720000>>>>,
     youxi |->
        <<<<0, 200>>, <<60000, 6500>>, <<300000, 18000>>, <<750000, 42000>>,
          <<3000000, 75000>>, <<7500000, 120000>>, <<20000000, 220000>>>>,
     shenghuo |->
        <<<<0, 500>>, <<60000, 8500>>, <<300000, 22000>>, <<750000, 50000>>,
          <<3000000, 95000>>, <<7500000, 180000>>, <<20000000, 400000>>>>,
     kexueKepu |->
        <<<<0, 0>>, <<60000, 8000>>, <<300000, 20000>>, <<750000, 45000>>,
          <<3000000, 85000>>, <<7500000, 160000>>, <<20000000, 320000>>>>,
     keji |->
        <<<<0, 500>>, <<60000, 8500>>, <<300000, 22000>>, <<750000, 50000>>,
          <<3000000, 95000>>, <<7500000, 180000>>, <<20000000, 400000>>>>,
     meizhuang |->
        <<<<0, 2000>>, <<60000, 9500>>, <<300000, 38000>>, <<750000, 95000>>,
          <<3000000, 145000>>, <<7500000, 240000>>, <<20000000, 880000>>>>,
     meironggenghu |->
        <<<<0, 0>>, <<60000, 9000>>, <<300000, 25000>>, <<750000, 55000>>,
          <<3000000, 100000>>, <<7500000, 180000>>, <<20000000, 380000>>>>,
     meishi |->
        <<<<0, 0>>, <<60000, 7500>>, <<300000, 20000>>, <<750000, 45000>>,
          <<3000000, 85000>>, <<7500000, 150000>>, <<20000000, 350000>>>>,
     zhichang |->
        <<<<0, 0>>, <<60000, 7000>>, <<300000, 18000>>, <<750000, 40000>>,
          <<3000000, 75000>>, <<7500000, 140000>>, <<20000000, 280000>>>>,
     mengchong |->
        <<<<0, 500>>, <<60000, 8500>>, <<300000, 18000>>, <<750000, 35000>>,
          <<3000000, 65000>>, <<7500000, 120000>>, <<20000000, 240000>>>>,
     caijing |->
        <<<<0, 500>>, <<60000, 9500>>, <<300000, 35000>>, <<750000, 75000>>,
          <<3000000, 160000>>, <<7500000, 300000>>, <<20000000, 1800000>>>>,
     yundongjianshen |->
        <<<<0, 0>>, <<60000, 7000>>, <<300000, 20000>>, <<750000, 55000>>,
          <<3000000, 95000>>, <<7500000, 170000>>, <<20000000, 350000>>>>,
     yinyue |->
        <<<<0, 0>>, <<60000, 7500>>, <<300000, 18000>>, <<750000, 40000>>,
          <<3000000, 80000>>, <<7500000, 150000>>, <<20000000, 300000>>>>,
     yanzhi |->
        <<<<0, 0>>, <<60000, 8000>>, <<300000, 20000>>, <<750000, 45000>>,
          <<3000000, 85000>>, <<7500000, 160000>>, <<20000000, 320000>>>>]

\* a decimal literal with one fractional digit: Dec(18) is the float 1.8
Dec(tenths) == FFromRatio(tenths, 10)

COEFF_MATRIX ==
    [sannong |->
        [xiaohongshu |-> Dec(5), bilibili |-> Dec(3),
         kuaishou |-> Dec(18), douyin |-> FFromInt(1)],
     erciyan |->
        [xiaohongshu |-> Dec(7), bilibili |-> Dec(22),
         kuaishou |-> Dec(4), douyin |-> FFromInt(1)],
     jiankang |->
        [xiaohongshu |-> Dec(13), bilibili |-> Dec(8),
         kuaishou |-> Dec(11), douyin |-> FFromInt(1)],
     xingquaihao |->
        [xiaohongshu |-> Dec(12), bilibili |-> Dec(14),
         kuaishou |-> Dec(9), douyin |-> FFromInt(1)],
     qita |->
        [xiaohongshu |-> Dec(8), bilibili |-> Dec(9),
         kuaishou |-> Dec(10), douyin |-> FFromInt(1)],
     yiliaojiankang |->
        [xiaohongshu |-> Dec(10), bilibili |-> Dec(6),
         kuaishou |-> Dec(13), douyin |-> FFromInt(1)],
     yule |->
        [xiaohongshu |-> Dec(9), bilibili |-> Dec(11),
         kuaishou |-> Dec(14), douyin |-> FFromInt(1)],
     jiajujiazhuang |->
        [xiaohongshu |-> Dec(18), bilibili |-> Dec(5),
         kuaishou |-> Dec(10), douyin |-> FFromInt(1)],
     youmogaoxiao |->
        [xiaohongshu |-> Dec(7), bilibili |-> Dec(10),
         kuaishou |-> Dec(16), douyin |-> FFromInt(1)],
     yingshizongyi |->
        [xiaohongshu |-> Dec(8), bilibili |-> Dec(17),
         kuaishou |-> Dec(9), douyin |-> FFromInt(1)],
     qingganxinli |->
        [xiaohongshu |-> Dec(16), bilibili |-> Dec(7),
         kuaishou |-> Dec(10), douyin |-> FFromInt(1)],
     caiyijineng |->
        [xiaohongshu |-> Dec(11), bilibili |-> Dec(15),
         kuaishou |-> Dec(8), douyin |-> FFromInt(1)],
     jiaoyupeixun |->
        [xiaohongshu |-> Dec(10), bilibili |-> Dec(16),
         kuaishou |-> Dec(6), douyin |-> FFromInt(1)],
     wenhua |->
        [xiaohongshu |-> Dec(11), bilibili |-> Dec(18),
         kuaishou |-> Dec(5), douyin |-> FFromInt(1)],
     lvyou |->
        [xiaohongshu |-> Dec(16), bilibili |-> Dec(9),
         kuaishou |-> Dec(11), douyin |-> FFromInt(1)],
     shishizixun |->
        [xiaohongshu |-> Dec(6), bilibili |-> Dec(13),
         kuaishou |-> Dec(11), douyin |-> FFromInt(1)],
     shishang |->
        [xiaohongshu |-> Dec(19), bilibili |-> Dec(8),
         kuaishou |-> Dec(12), douyin |-> FFromInt(1)],
     muyingyuer |->
        [xiaohongshu |-> Dec(15), bilibili |-> Dec(4),
         kuaishou |-> Dec(15), douyin |-> FFromInt(1)],
     qiche |->
        [xiaohongshu |-> Dec(7), bilibili |-> Dec(11),
         kuaishou |-> Dec(9), douyin |-> FFromInt(1)],
     youxi |->
        [xiaohongshu |-> Dec(5), bilibili |-> Dec(20),
         kuaishou |-> Dec(7), douyin |-> FFromInt(1)],
     shenghuo |->
        [xiaohongshu |-> Dec(13), bilibili |-> Dec(10),
         kuaishou |-> Dec(15), douyin |-> FFromInt(1)],
     kexueKepu |->
        [xiaohongshu |-> Dec(9), bilibili |-> Dec(17),
         kuaishou |-> Dec(6), douyin |-> FFromInt(1)],
     keji |->
        [xiaohongshu |-> Dec(6), bilibili |-> Dec(18),
         kuaishou |-> Dec(8), douyin |-> FFromInt(1)],
     meizhuang |->
        [xiaohongshu |-> Dec(20), bilibili |-> Dec(6),
         kuaishou |-> Dec(10), douyin |-> FFromInt(1)],
     meironggenghu |->
        [xiaohongshu |-> Dec(17), bilibili |-> Dec(5),
         kuaishou |-> Dec(9), douyin |-> FFromInt(1)],
     meishi |->
        [xiaohongshu |-> Dec(15), bilibili |-> Dec(10),
         kuaishou |-> Dec(14), douyin |-> FFromInt(1)],
     zhichang |->
        [xiaohongshu |-> Dec(11), bilibili |-> Dec(14),
         kuaishou |-> Dec(7), douyin |-> FFromInt(1)],
     mengchong |->
        [xiaohongshu |-> Dec(12), bilibili |-> Dec(11),
         kuaishou |-> Dec(14), douyin |-> FFromInt(1)],
     caijing |->
        [xiaohongshu |-> Dec(8), bilibili |-> Dec(10),
         kuaishou |-> Dec(5), douyin |-> FFromInt(1)],
     yundongjianshen |->
        [xiaohongshu |-> Dec(11), bilibili |-> Dec(9),
         kuaishou |-> Dec(10), douyin |-> FFromInt(1)],
     yinyue |->
        [xiaohongshu |-> Dec(10), bilibili |-> Dec(15),
         kuaishou |-> Dec(11), douyin |-> FFromInt(1)],
     yanzhi |->
        [xiaohongshu |-> Dec(14), bilibili |-> Dec(10),
         kuaishou |-> Dec(13), douyin |-> FFromInt(1)]]

(***************************************************************************)
(* pricing_module.py                                                       *)
(***************************************************************************)
\* one pass of the loop of ContinuousPiecewiseFunction.__init__, after
\* slope = (y2 - y1) / (x2 - x1): intercept = y1 - slope * x1 and the tuple
\* (x1, x2, slope, intercept)
SegmentOf(x1, y1, x2, slope) ==
    [start |-> x1, end |-> x2, slope |-> slope,
     intercept |-> FSub(FFromInt(y1), FMul(slope, FFromInt(x1)))]

\* mutant of Segment: the slope is twice (y2 - y1) / (x2 - x1)
SegmentDoubleSlope(p1, p2) ==
    SegmentOf(p1[1], p1[2], p2[1],
              FFromRatio(2 * (p2[2] - p1[2]), p2[1] - p1[1]))

\* mutant of Segment: the intercept is y1, the term slope * x1 forgotten
SegmentInterceptY1(p1, p2) ==
    [start |-> p1[1], end |-> p2[1],
     slope |-> FFromRatio(p2[2] - p1[2], p2[1] - p1[1]),
     intercept |-> FFromInt(p1[2])]

\* the segment between the breakpoints p1 = (x1, y1) and p2 = (x2, y2)
Segment(p1, p2) ==
    SegmentOf(p1[1], p1[2], p2[1], FFromRatio(p2[2] - p1[2], p2[1] - p1[1]))

\* ContinuousPiecewiseFunction.__init__.  It checks nothing: the only way it
\* fails is the division by x2 - x1 = 0; any other list, an empty or a
\* one-element or a decreasing one included, yields an object.
ContinuousPiecewiseFunction(breakpoints) ==
    IF \E i \in 1..(Len(breakpoints) - 1) :
           breakpoints[i + 1][1] = breakpoints[i][1]
    THEN [status |-> "ZeroDivisionError"]
    ELSE [status |-> "ok",
          segments |-> [i \in 1..(Len(breakpoints) - 1) |->
                           Segment(breakpoints[i], breakpoints[i + 1])]]

\* slope * x + intercept of one segment
SegmentValue(seg, x) == FAdd(FMul(seg.slope, FFromInt(x)), seg.intercept)

\* mutant of SegmentIndex: outside every segment, the first one is used
SegmentIndexFirst(segments, x) ==
    LET hits == {i \in 1..Len(segments) :
                    segments[i].start <= x /\ x < segments[i].end}
    IN  IF hits # {} THEN CHOOSE i \in hits : \A j \in hits : i <= j
        ELSE 1

\* the index of the segment __call__ computes with: the first one with
\* start <= x < end, else the last one
SegmentIndex(segments, x) ==
    LET hits == {i \in 1..Len(segments) :
                    segments[i].start <= x /\ x < segments[i].end}
    IN  IF hits # {} THEN CHOOSE i \in hits : \A j \in hits : i <= j
        ELSE Len(segments)

\* ContinuousPiecewiseFunction.__call__; with no segment at all,
\* self.segments[-1] raises IndexError
Call(segments, x) ==
    IF Len(segments) = 0
    THEN [status |-> "IndexError"]
    ELSE [status |-> "ok",
          value |-> SegmentValue(segments[SegmentIndex(segments, x)], x)]

build_douyin_functions ==
    [c \in DOMAIN BreakpointTable |->
        ContinuousPiecewiseFunction(BreakpointTable[c]).segments]

DOUYIN_FUNCTIONS == build_douyin_functions

\* kwargs.get(key, default); kwargs is a function on a set of keys
KwargsGet(kwargs, key, default) ==
    IF key \in DOMAIN kwargs THEN kwargs[key] ELSE default

\* mutant of CelebrityPrice: the flag doubles the price of every category
CelebrityPriceEveryCategory(category, kwargs, base_price) ==
    IF KwargsGet(kwargs, "is_celebrity", FALSE)
    THEN FMul(base_price, FFromInt(2))
    ELSE base_price

\* mutant of CelebrityPrice: the flag is ignored
CelebrityPriceIgnored(category, kwargs, base_price) == base_price

\* lines 443-446: the doubling for a celebrity account of yingshizongyi
CelebrityPrice(category, kwargs, base_price) ==
    IF category = "yingshizongyi" /\ KwargsGet(kwargs, "is_celebrity", FALSE)
    THEN FMul(base_price, FFromInt(2))
    ELSE base_price

\* mutant of PlatformCoeff: a platform outside the row has coefficient -1.0
PlatformCoeffDefaultNegative(category, platform) ==
    IF platform \in DOMAIN COEFF_MATRIX[category]
    THEN COEFF_MATRIX[category][platform]
    ELSE FNeg(Dec(10))

\* mutant of PlatformCoeff: every platform priced with the xiaohongshu entry
PlatformCoeffXiaohongshu(category, platform) ==
    COEFF_MATRIX[category]["xiaohongshu"]

\* mutant of PlatformCoeff: a platform outside the row has coefficient 0
PlatformCoeffDefaultZero(category, platform) ==
    IF platform \in DOMAIN COEFF_MATRIX[category]
    THEN COEFF_MATRIX[category][platform]
    ELSE FZero

\* COEFF_MATRIX[category].get(platform, 1.0)
PlatformCoeff(category, platform) ==
    IF platform \in DOMAIN COEFF_MATRIX[category]
    THEN COEFF_MATRIX[category][platform]
    ELSE Dec(10)

\* lines 443-452 of get_price, given what base_func(followers) gave
PriceOf(platform, category, kwargs, base) ==
    IF base.status # "ok" THEN base
    ELSE [status |-> "ok",
          value |-> FMul(CelebrityPrice(category, kwargs, base.value),
                         PlatformCoeff(category, platform))]

\* mutant of get_price: an unknown category is priced at 0
get_priceUnknownFree(platform, category, followers, kwargs) ==
    IF category \notin DOMAIN DOUYIN_FUNCTIONS
    THEN [status |-> "ok", value |-> FZero]
    ELSE PriceOf(platform, category, kwargs,
                 Call(DOUYIN_FUNCTIONS[category], followers))

get_price(platform, category, followers, kwargs) ==
    IF category \notin DOMAIN DOUYIN_FUNCTIONS
    THEN [status |-> "ValueError"]
    ELSE IF category \notin DOMAIN COEFF_MATRIX
    THEN [status |-> "ValueError"]
    ELSE PriceOf(platform, category, kwargs,
                 Call(DOUYIN_FUNCTIONS[category], followers))

get_platforms == <<"douyin", "xiaohongshu", "bilibili", "kuaishou">>

\* the local list `platforms` of get_all_platforms_prices
platforms == <<"douyin", "xiaohongshu", "bilibili", "kuaishou">>

\* the loop of get_all_platforms_prices from the i-th platform on, with the
\* dict `prices` filled so far; an error of get_price leaves the function
RECURSIVE PricesFrom(_, _, _, _, _)
PricesStep(i, prices, category, followers, kwargs, r) ==
    IF r.status # "ok" THEN r
    ELSE PricesFrom(i + 1, prices @@ (platforms[i] :> r.value),
                    category, followers, kwargs)

PricesFrom(i, prices, category, followers, kwargs) ==
    IF i > Len(platforms)
    THEN [status |-> "ok", value |-> prices]
    ELSE PricesStep(i, prices, category, followers, kwargs,
                    get_price(platforms[i], category, followers, kwargs))

get_all_platforms_prices(category, followers, kwargs) ==
    PricesFrom(1, <<>>, category, followers, kwargs)

(***************************************************************************)
(* value_predictor.py                                                      *)
(***************************************************************************)
\* AdMatrixGenerator.get_fan_range.  fans is a float count of ten-thousands
\* of followers; the model passes it in thousandths (fans = milli / 1000),
\* so that 9.999 is 9999, and the thresholds 10, 50, 100, 500, 1000 are
\* compared as threshold * 1000.
\* mutant of get_fan_range: the comparisons are <=, a boundary value
\* falling in the lower bracket
get_fan_rangeInclusive(milli) ==
    IF milli <= 10 * 1000 THEN "1-10"
    ELSE IF milli <= 50 * 1000 THEN "10-50"
    ELSE IF milli <= 100 * 1000 THEN "50-100"
    ELSE IF milli <= 500 * 1000 THEN "100-500"
    ELSE IF milli <= 1000 * 1000 THEN "500-1000"
    ELSE "1000+"

\* mutant of get_fan_range: a value below 1 is in none of the six brackets
get_fan_rangeFromOne(milli) ==
    IF milli < 1 * 1000 THEN "0-1"
    ELSE IF milli < 10 * 1000 THEN "1-10"
    ELSE IF milli < 50 * 1000 THEN "10-50"
    ELSE IF milli < 100 * 1000 THEN "50-100"
    ELSE IF milli < 500 * 1000 THEN "100-500"
    ELSE IF milli < 1000 * 1000 THEN "500-1000"
    ELSE "1000+"

get_fan_range(milli) ==
    IF milli < 10 * 1000 THEN "1-10"
    ELSE IF milli < 50 * 1000 THEN "10-50"
    ELSE IF milli < 100 * 1000 THEN "50-100"
    ELSE IF milli < 500 * 1000 THEN "100-500"
    ELSE IF milli < 1000 * 1000 THEN "500-1000"
    ELSE "1000+"

\* the elements of a list
SeqRange(q) == {q[i] : i \in 1..Len(q)}

\* AdMatrixGenerator.fan_ranges
fan_ranges == <<"1-10", "10-50", "50-100", "100-500", "500-1000", "1000+">>

(***************************************************************************)
(* AdMatrixGenerator: the ad-count matrix.  generate_matrix turns the four *)
(* hard-coded dicts into a DataFrame with one row per (platform, fan       *)
(* range); a row has the columns "fensiliangji" (the fan range) and        *)
(* "pingtai" (the platform), named in the source by the Chinese words for  *)
(* them, and one column per label.  Every cell is a string: the label      *)
(* cells hold str(value).                                                  *)
(***************************************************************************)
\* douyin_matrix (lines 425-480): one row per fan range, in the order of
\* fan_ranges, one entry per label, in the order of CategoryKeys
douyin_matrix ==
    <<<<8, 5, 6, 7, 4, 5, 12, 8, 15, 9, 12, 9, 5, 6, 9, 5,
        20, 12, 6, 8, 15, 5, 8, 22, 18, 15, 6, 12, 5, 9, 10, 15>>,
      <<12, 8, 9, 10, 6, 8, 22, 12, 30, 15, 18, 15, 8, 9, 15, 8,
        38, 18, 9, 12, 30, 8, 12, 45, 38, 30, 9, 18, 8, 15, 18, 30>>,
      <<18, 13, 15, 16, 10, 12, 45, 18, 60, 30, 38, 22, 12, 15, 30, 12,
        75, 38, 15, 18, 60, 12, 18, 90, 75, 60, 15, 38, 12, 30, 38, 60>>,
      <<35, 20, 22, 25, 15, 20, 90, 35, 120, 60, 75, 38, 22, 22, 60, 20,
        150, 75, 22, 35, 120, 18, 35, 180, 150, 120, 22, 75, 18, 60, 75, 120>>,
      <<55, 35, 38, 40, 25, 35, 150, 55, 230, 120, 150, 75, 38, 38, 120, 35,
        300, 150, 38, 55, 230, 35, 55, 370, 300, 230, 38, 150, 35, 120, 150, 230>>,
      <<80, 50, 60, 65, 40, 55, 220, 80, 300, 180, 200, 110, 50, 60, 150, 50,
        400, 200, 50, 80, 280, 50, 80, 500, 450, 350, 50, 200, 50, 150, 200, 300>>>>

\* xiaohongshu_matrix (lines 483-538): one row per fan range, in the order of
\* fan_ranges, one entry per label, in the order of CategoryKeys
xiaohongshu_matrix ==
    <<<<5, 3, 6, 5, 3, 5, 8, 9, 6, 5, 9, 6, 5, 5, 12, 4,
        22, 15, 5, 4, 12, 4, 6, 30, 22, 18, 5, 9, 4, 12, 8, 18>>,
      <<9, 6, 12, 8, 5, 9, 15, 18, 12, 9, 18, 12, 9, 9, 22, 6,
        45, 30, 9, 6, 22, 6, 12, 60, 45, 38, 9, 18, 6, 22, 15, 38>>,
      <<15, 10, 20, 12, 8, 15, 25, 30, 20, 15, 30, 20, 15, 15, 38, 10,
        75, 55, 15, 10, 38, 10, 20, 100, 75, 60, 15, 30, 10, 38, 25, 60>>,
      <<25, 15, 35, 20, 12, 25, 45, 55, 35, 25, 55, 35, 25, 25, 75, 15,
        150, 90, 25, 15, 75, 15, 35, 200, 150, 120, 25, 55, 15, 75, 45, 120>>,
      <<40, 25, 60, 35, 20, 40, 80, 90, 60, 40, 90, 60, 40, 40, 120, 25,
        250, 150, 40, 25, 120, 25, 60, 350, 250, 200, 40, 90, 25, 120, 80, 200>>,
      <<60, 40, 90, 55, 30, 60, 120, 130, 90, 60, 130, 90, 60, 60, 180, 40,
        350, 220, 60, 40, 180, 40, 90, 500, 380, 300, 60, 130, 40, 180, 120, 300>>>>

\* bilibili_matrix (lines 541-596): one row per fan range, in the order of
\* fan_ranges, one entry per label, in the order of CategoryKeys
bilibili_matrix ==
    <<<<4, 8, 5, 6, 3, 5, 6, 5, 7, 6, 5, 6, 5, 6, 8, 4,
        12, 6, 5, 10, 7, 6, 8, 15, 12, 10, 5, 7, 5, 8, 7, 10>>,
      <<7, 15, 9, 10, 5, 8, 12, 9, 12, 12, 9, 12, 9, 12, 15, 6,
        22, 12, 9, 18, 12, 12, 15, 30, 22, 18, 9, 12, 9, 15, 12, 18>>,
      <<12, 25, 15, 16, 8, 12, 20, 15, 20, 20, 15, 20, 15, 20, 25, 10,
        38, 20, 15, 30, 20, 20, 25, 55, 38, 30, 15, 20, 15, 25, 20, 30>>,
      <<20, 45, 25, 25, 12, 20, 35, 25, 35, 35, 25, 35, 25, 35, 45, 15,
        75, 35, 25, 55, 35, 35, 45, 90, 75, 55, 25, 35, 25, 45, 35, 55>>,
      <<30, 70, 40, 40, 20, 35, 60, 40, 60, 60, 40, 60, 40, 60, 70, 25,
        120, 60, 40, 90, 60, 60, 70, 150, 120, 90, 40, 60, 40, 70, 60, 90>>,
      <<50, 100, 60, 65, 30, 55, 90, 60, 90, 90, 60, 90, 60, 90, 100, 40,
        180, 90, 60, 130, 90, 90, 100, 220, 180, 130, 60, 90, 60, 100, 90, 130>>>>

\* kuaishou_matrix (lines 599-654): one row per fan range, in the order of
\* fan_ranges, one entry per label, in the order of CategoryKeys
kuaishou_matrix ==
    <<<<10, 6, 8, 7, 5, 6, 15, 8, 18, 10, 12, 10, 6, 8, 12, 5,
        22, 15, 8, 10, 15, 6, 8, 25, 20, 18, 8, 12, 6, 12, 10, 18>>,
      <<18, 12, 15, 12, 8, 10, 30, 15, 38, 18, 22, 18, 12, 15, 22, 8,
        45, 30, 15, 18, 30, 12, 15, 50, 40, 38, 15, 22, 12, 22, 18, 38>>,
      <<30, 20, 25, 20, 12, 16, 55, 25, 60, 30, 38, 30, 20, 25, 38, 12,
        75, 55, 25, 30, 55, 20, 25, 90, 75, 60, 25, 38, 20, 38, 30, 60>>,
      <<60, 35, 45, 35, 20, 25, 90, 45, 120, 60, 75, 60, 35, 45, 75, 20,
        150, 90, 45, 60, 90, 35, 45, 180, 150, 120, 45, 75, 35, 75, 60, 120>>,
      <<100, 60, 80, 60, 35, 40, 150, 80, 200, 100, 120, 100, 60, 80, 120, 35,
        250, 150, 80, 100, 150, 60, 80, 300, 250, 200, 80, 120, 60, 120, 100, 200>>,
      <<150, 90, 120, 90, 55, 65, 220, 120, 300, 150, 180, 150, 90, 120, 180, 55,
        350, 220, 120, 150, 220, 90, 120, 450, 380, 300, 120, 180, 90, 180, 150, 300>>>>

\* AdMatrixGenerator.platforms, each with its dict
MatrixPlatforms == <<"douyin", "xiaohongshu", "bilibili", "kuaishou">>

\* mutant of MatrixOf: the rows of the two lowest fan ranges change places
MatrixOfSwapped(platform) ==
    LET m == CASE platform = "douyin" -> douyin_matrix
               [] platform = "xiaohongshu" -> xiaohongshu_matrix
               [] platform = "bilibili" -> bilibili_matrix
               [] platform = "kuaishou" -> kuaishou_matrix
    IN  <<m[2], m[1]>> \o SubSeq(m, 3, Len(m))

MatrixOf(platform) ==
    CASE platform = "douyin" -> douyin_matrix
      [] platform = "xiaohongshu" -> xiaohongshu_matrix
      [] platform = "bilibili" -> bilibili_matrix
      [] platform = "kuaishou" -> kuaishou_matrix

\* the largest number of the four dicts
MaxCell ==
    LET cells == {MatrixOf(p)[r][i] : p \in SeqRange(MatrixPlatforms),
                                     r \in 1..6, i \in 1..32}
    IN  CHOOSE n \in cells : \A k \in cells : k <= n

\* str(value) of an int, and int(s) of a string: the number whose decimal
\* numeral s is, ValueError if s is no numeral (numerals up to MaxCell
\* are all the matrix holds)

PyStr(n) == ToString(n)

PyInt(s) ==
    IF \E n \in 0..MaxCell : PyStr(n) = s
    THEN [status |-> "ok", value |-> CHOOSE n \in 0..MaxCell : PyStr(n) = s]
    ELSE [status |-> "ValueError"]

\* one row of the DataFrame (lines 660-664 and the like)
MatrixRow(platform, r) ==
    ("fensiliangji" :> fan_ranges[r]) @@ ("pingtai" :> platform) @@
    [label \in SeqRange(CategoryKeys) |->
        PyStr(MatrixOf(platform)[r][
            CHOOSE i \in 1..Len(CategoryKeys) : CategoryKeys[i] = label])]

\* AdMatrixGenerator.generate_matrix: the rows, douyin's six first
generate_matrix ==
    [n \in 1..(Len(MatrixPlatforms) * Len(fan_ranges)) |->
        MatrixRow(MatrixPlatforms[(n - 1) \div Len(fan_ranges) + 1],
                  ((n - 1) % Len(fan_ranges)) + 1)]

\* AdMatrixGenerator._matrix
Matrix == generate_matrix

\* the rows of the DataFrame m with the given fan range and platform
QueryResult(m, fan_range, platform) ==
    SelectSeq(m, LAMBDA row : row["fensiliangji"] = fan_range
                              /\ row["pingtai"] = platform)

\* lines 714-721, given the rows selected
AdCountOf(query_result, label) ==
    IF query_result = <<>> THEN [status |-> "ok", value |-> 0]
    ELSE IF label \in DOMAIN query_result[1]
    THEN PyInt(query_result[1][label])
    ELSE [status |-> "ok", value |-> 0]

\* AdMatrixGenerator.get_expected_ad_count, with fans in thousandths as in
\* get_fan_range
get_expected_ad_count(platform, label, milli) ==
    AdCountOf(QueryResult(Matrix, get_fan_range(milli), platform), label)


\* |f| * 100 rounded to the nearest integer, ties to even: the digits of the
\* correctly rounded two-decimal numeral of f
Hundredths(f) == BToNat(BNorm(BRoundShift(BMulLimb(f.m, 100), -f.e)))

\* round(x, 2) of a Python float: the float nearest to the correctly rounded
\* two-decimal numeral of x
PyRound2(f) == FFromRatio(f.s * Hundredths(f), 100)

\* mutant of DevelopmentRatioOf: no guard, the division by 0 raises
DevelopmentRatioUnguarded(expected_ads, actual_ads) ==
    IF expected_ads.status # "ok" THEN expected_ads
    ELSE IF expected_ads.value = 0 THEN [status |-> "ZeroDivisionError"]
    ELSE [status |-> "ok",
          value |-> PyRound2(FFromRatio(actual_ads, expected_ads.value))]

\* lines 738-741, given what get_expected_ad_count gave
DevelopmentRatioOf(expected_ads, actual_ads) ==
    IF expected_ads.status # "ok" THEN expected_ads
    ELSE IF expected_ads.value = 0 THEN [status |-> "ok", value |-> FZero]
    ELSE [status |-> "ok",
          value |-> PyRound2(FFromRatio(actual_ads, expected_ads.value))]

\* AdMatrixGenerator.calculate_development_ratio
calculate_development_ratio(platform, label, milli, actual_ads) ==
    DevelopmentRatioOf(get_expected_ad_count(platform, label, milli),
                       actual_ads)

\* ---- the three places that label a development ratio ----
\* Each is an if / elif / else over the float ratio with the literals 0.8
\* and 1.2; the model returns what the branch taken sets: the text of the
\* gauge, the colour of the bar, the title of the details card.
\* lines 754-762 of create_development_visualization
GaugeText(ratio) ==
    IF FCmp(ratio, Dec(8)) < 0 THEN "kaifabuzu"
    ELSE IF FCmp(ratio, Dec(12)) <= 0 THEN "zhengchangshuiping"
    ELSE "chongfenkaifa"

\* lines 844-849 of create_ad_comparison_chart
BarColor(ratio) ==
    IF FCmp(ratio, Dec(8)) < 0 THEN "rgba(255, 87, 51, 0.8)"
    ELSE IF FCmp(ratio, Dec(12)) <= 0 THEN "rgba(46, 204, 113, 0.8)"
    ELSE "rgba(52, 152, 219, 0.8)"

\* mutant of CardTitle: the second comparison is ratio < 1.2
CardTitleStrict(ratio) ==
    IF FCmp(ratio, Dec(8)) < 0 THEN "underdeveloped_title"
    ELSE IF FCmp(ratio, Dec(12)) < 0 THEN "normal_title"
    ELSE "overdeveloped_title"

\* lines 1134-1166 of app.py
CardTitle(ratio) ==
    IF FCmp(ratio, Dec(8)) < 0 THEN "underdeveloped_title"
    ELSE IF FCmp(ratio, Dec(12)) <= 0 THEN "normal_title"
    ELSE "overdeveloped_title"

create_development_visualization(platform, label, milli, actual_ads) ==
    LET ratio == calculate_development_ratio(platform, label, milli,
                                             actual_ads)
    IN  IF ratio.status # "ok" THEN ratio
        ELSE [status |-> "ok", value |-> GaugeText(ratio.value)]

create_ad_comparison_chart(platform, label, milli, actual_ads) ==
    LET ratio == calculate_development_ratio(platform, label, milli,
                                             actual_ads)
    IN  IF ratio.status # "ok" THEN ratio
        ELSE [status |-> "ok", value |-> BarColor(ratio.value)]

\* app.py, lines 994-1001 and 1134-1166: ratio = round(ratio, 2), then the
\* card
development_details(platform, label, milli, actual_ads) ==
    LET ratio == calculate_development_ratio(platform, label, milli,
                                             actual_ads)
    IN  IF ratio.status # "ok" THEN ratio
        ELSE [status |-> "ok", value |-> CardTitle(PyRound2(ratio.value))]

(***************************************************************************)
(* BloggerValuePredictor.  Values computed with numpy (np.log, np.sqrt and *)
(* everything derived from them) are numpy floats: a division by zero      *)
(* gives an infinity or NaN instead of raising, and round(x, 2) is         *)
(* rint(x * 100) / 100.  FInf(s) and FNaN stand for those values; the      *)
(* sign of a zero is not kept.                                             *)
(***************************************************************************)
FInf(s) == [s |-> s, m |-> <<>>, e |-> 1]

FNaN == [s |-> 1, m |-> <<>>, e |-> 2]

IsFinite(a) == a.m # <<>> \/ a.e = 0

NpMul(a, b) ==
    IF a = FNaN \/ b = FNaN THEN FNaN
    ELSE IF IsFinite(a) /\ IsFinite(b) THEN FMul(a, b)
    ELSE IF a = FZero \/ b = FZero THEN FNaN
    ELSE FInf(a.s * b.s)

NpAdd(a, b) ==
    IF a = FNaN \/ b = FNaN THEN FNaN
    ELSE IF IsFinite(a) /\ IsFinite(b) THEN FAdd(a, b)
    ELSE IF ~IsFinite(a) /\ ~IsFinite(b) /\ a.s # b.s THEN FNaN
    ELSE IF IsFinite(a) THEN b ELSE a

\* a / b of numpy floats, a finite or not, b finite
NpDiv(a, b) ==
    IF a = FNaN THEN FNaN
    ELSE IF b = FZero THEN (IF a = FZero THEN FNaN ELSE FInf(a.s))
    ELSE IF IsFinite(a) THEN FDiv(a, b)
    ELSE FInf(a.s * b.s)

\* round(x, 2) of a numpy float
NpRound2(x) ==
    IF IsFinite(x)
    THEN FDiv(FRint(FMul(x, FFromInt(100))), FFromInt(100))
    ELSE x

\* a decimal literal with two decimals, given in hundredths
Hund(n) == FFromRatio(n, 100)

\* np.log(n) for n = 1..8: the floats nearest to ln(n)
LnTable ==
    <<FZero,
     [s |-> 1, m |-> <<111, 115, 104, 119, 47, 72, 11, 11>>, e |-> -53],
     [s |-> 1, m |-> <<11, 6, 52, 85, 39, 125, 100, 8>>, e |-> -52],
     [s |-> 1, m |-> <<111, 115, 104, 119, 47, 72, 11, 11>>, e |-> -52],
     [s |-> 1, m |-> <<51, 26, 54, 63, 31, 8, 112, 12>>, e |-> -52],
     [s |-> 1, m |-> <<2, 64, 40, 81, 63, 97, 42, 14>>, e |-> -52],
     [s |-> 1, m |-> <<87, 52, 73, 113, 42, 78, 72, 15>>, e |-> -52],
     [s |-> 1, m |-> <<115, 86, 110, 121, 35, 86, 40, 8>>, e |-> -51]>>

\* BloggerValuePredictor.platform_params
platform_params ==
    [douyin |-> [k |-> Hund(75), beta |-> Hund(120), fan_limit |-> 500],
     xiaohongshu |-> [k |-> Hund(65), beta |-> Hund(100), fan_limit |-> 300],
     bilibili |-> [k |-> Hund(55), beta |-> Hund(80), fan_limit |-> 200],
     kuaishou |-> [k |-> Hund(45), beta |-> Hund(60), fan_limit |-> 400]]

\* BloggerValuePredictor.label_params: alpha, gamma, delta of each label
label_params ==
    [sannong |-> <<Hund(45), Hund(120), Hund(60)>>,
     erciyan |-> <<Hund(50), Hund(140), Hund(70)>>,
     jiankang |-> <<Hund(30), Hund(80), Hund(40)>>,
     xingquaihao |-> <<Hund(35), Hund(90), Hund(50)>>,
     qita |-> <<Hund(25), Hund(60), Hund(30)>>,
     yiliaojiankang |-> <<Hund(32), Hund(70), Hund(50)>>,
     yule |-> <<Hund(40), Hund(110), Hund(60)>>,
     jiajujiazhuang |-> <<Hund(38), Hund(130), Hund(70)>>,
     youmogaoxiao |-> <<Hund(42), Hund(100), Hund(50)>>,
     yingshizongyi |-> <<Hund(35), Hund(110), Hund(60)>>,
     qingganxinli |-> <<Hund(36), Hund(100), Hund(60)>>,
     caiyijineng |-> <<Hund(37), Hund(110), Hund(60)>>,
     jiaoyupeixun |-> <<Hund(33), Hund(90), Hund(50)>>,
     wenhua |-> <<Hund(34), Hund(90), Hund(50)>>,
     lvyou |-> <<Hund(39), Hund(120), Hund(70)>>,
     shishizixun |-> <<Hund(30), Hund(70), Hund(40)>>,
     shishang |-> <<Hund(43), Hund(150), Hund(80)>>,
     muyingyuer |-> <<Hund(40), Hund(140), Hund(70)>>,
     qiche |-> <<Hund(38), Hund(130), Hund(80)>>,
     youxi |-> <<Hund(45), Hund(130), Hund(70)>>,
     shenghuo |-> <<Hund(36), Hund(100), Hund(60)>>,
     kexueKepu |-> <<Hund(35), Hund(110), Hund(60)>>,
     keji |-> <<Hund(42), Hund(140), Hund(90)>>,
     meizhuang |-> <<Hund(48), Hund(160), Hund(90)>>,
     meironggenghu |-> <<Hund(45), Hund(150), Hund(80)>>,
     meishi |-> <<Hund(44), Hund(140), Hund(70)>>,
     zhichang |-> <<Hund(37), Hund(100), Hund(60)>>,
     mengchong |-> <<Hund(41), Hund(120), Hund(60)>>,
     caijing |-> <<Hund(39), Hund(130), Hund(80)>>,
     yundongjianshen |-> <<Hund(40), Hund(120), Hund(70)>>,
     yinyue |-> <<Hund(38), Hund(110), Hund(60)>>,
     yanzhi |-> <<Hund(46), Hund(130), Hund(80)>>]

\* what the caller passes for an optional parameter
None == [none |-> TRUE]

Some(v) == [none |-> FALSE, value |-> v]

\* floor(1000 * f) of a finite float f, as get_fan_range takes it; every
\* f < 0 is sent to -1 and every f >= 2^20 to 2^30, which get_fan_range does
\* not tell from f
FanMilli(f) ==
    IF f = FZero THEN 0
    ELSE IF f.s < 0 THEN -1
    ELSE IF BitLen(f.m) + f.e > 20 THEN 2^30
    ELSE IF f.e >= 0 THEN BToNat(BShl(BMul(f.m, BFromNat(1000)), f.e))
    ELSE BToNat(BNorm(BShr(BMul(f.m, BFromNat(1000)), -f.e)))

\* BloggerValuePredictor.get_single_ad_value, fans a float >= 0 in
\* ten-thousands; the result is a numpy float
get_single_ad_value(platform, label, fans) ==
    IF label \notin DOMAIN label_params THEN [status |-> "ValueError"]
    ELSE [status |-> "ok",
          value |-> NpRound2(FMul(FMul(Hund(10), FSqrt(fans)),
                                  label_params[label][2]))]

\* lines 101-104: the price of one ad and whether it is a numpy float
SingleAdValueOf(single_ad_value, platform, label, fans_in_wan) ==
    IF single_ad_value.none
    THEN [np |-> TRUE,
          v |-> get_single_ad_value(platform, label, fans_in_wan).value]
    ELSE [np |-> FALSE, v |-> single_ad_value.value]

\* mutant of ProjectedFans: simple growth instead of compound growth
ProjectedFansSimple(fans_in_wan, platform, label, year, growth_rate) ==
    IF ~growth_rate.none
    THEN FMul(fans_in_wan,
              FAdd(FFromInt(1),
                   FMul(FDiv(growth_rate.value, FFromInt(100)),
                        FFromInt(year))))
    ELSE FAdd(fans_in_wan,
              FMul(FMul(platform_params[platform].k, LnTable[year + 1]),
                   FAdd(FFromInt(1), label_params[label][1])))

\* mutant of ProjectedFans: the built-in growth term is taken away
ProjectedFansFalling(fans_in_wan, platform, label, year, growth_rate) ==
    IF ~growth_rate.none
    THEN FMul(fans_in_wan,
              FPow(FAdd(FFromInt(1),
                        FDiv(growth_rate.value, FFromInt(100))), year))
    ELSE FSub(fans_in_wan,
              FMul(FMul(platform_params[platform].k, LnTable[year + 1]),
                   FAdd(FFromInt(1), label_params[label][1])))

\* mutant of ProjectedFans: the growth is taken away from the follower
\* count, not added to it
ProjectedFansShrinking(fans_in_wan, platform, label, year, growth_rate) ==
    IF ~growth_rate.none
    THEN FDiv(fans_in_wan,
              FPow(FAdd(FFromInt(1),
                        FDiv(growth_rate.value, FFromInt(100))), year))
    ELSE FSub(fans_in_wan,
              FMul(FMul(platform_params[platform].k, LnTable[year + 1]),
                   FAdd(FFromInt(1), label_params[label][1])))

\* mutant of ProjectedFans: ft is cut down to the platform's fan_limit
ProjectedFansCapped(fans_in_wan, platform, label, year, growth_rate) ==
    LET ft == IF ~growth_rate.none
              THEN FMul(fans_in_wan,
                        FPow(FAdd(FFromInt(1),
                                  FDiv(growth_rate.value, FFromInt(100))),
                             year))
              ELSE FAdd(fans_in_wan,
                        FMul(FMul(platform_params[platform].k,
                                  LnTable[year + 1]),
                             FAdd(FFromInt(1), label_params[label][1])))
        limit == FFromInt(platform_params[platform].fan_limit)
    IN  IF FCmp(ft, limit) > 0 THEN limit ELSE ft

\* lines 114-120: ft of one year
ProjectedFans(fans_in_wan, platform, label, year, growth_rate) ==
    IF ~growth_rate.none
    THEN FMul(fans_in_wan,
              FPow(FAdd(FFromInt(1),
                        FDiv(growth_rate.value, FFromInt(100))), year))
    ELSE FAdd(fans_in_wan,
              FMul(FMul(platform_params[platform].k, LnTable[year + 1]),
                   FAdd(FFromInt(1), label_params[label][1])))

\* (ft - fans_in_wan) / fans_in_wan of line 128: ft is a numpy float under
\* the built-in growth model and a Python float under a custom growth rate
GrowthRatio(ft, fans_in_wan, np) ==
    IF np
    THEN [status |-> "ok", value |-> NpDiv(FSub(ft, fans_in_wan), fans_in_wan)]
    ELSE IF fans_in_wan = FZero THEN [status |-> "ZeroDivisionError"]
    ELSE [status |-> "ok", value |-> FDiv(FSub(ft, fans_in_wan), fans_in_wan)]

\* mutant of AdPrice: the price of one ad does not grow
AdPriceFlat(single_ad_value, ratio, delta) == single_ad_value

\* line 128, given the ratio
AdPrice(single_ad_value, ratio, delta) ==
    NpMul(single_ad_value, NpAdd(FFromInt(1), NpMul(ratio, delta)))

\* line 131
YearRevenue(nt, pt) == NpMul(NpMul(FFromInt(nt), pt), Dec(12))

\* round(x, 2) of a numpy float or of a Python float
Round2(x, np) == IF np THEN NpRound2(x) ELSE PyRound2(x)

\* lines 124-133, given ft, nt and the ratio: the tuple of one year
YearRow(year, ft, nt, ratio, sav, delta, np) ==
    IF nt.status # "ok" THEN nt
    ELSE IF ratio.status # "ok" THEN ratio
    ELSE [status |-> "ok",
          value |-> <<year, Round2(ft, np), nt.value,
                      Round2(YearRevenue(nt.value,
                                         AdPrice(sav.v, ratio.value, delta)),
                             np \/ sav.np)>>]

\* mutant of YearAt: the ad count is looked up at the initial follower count
YearAtInitialFans(year, ft, fans_in_wan, platform, label, sav, np) ==
    YearRow(year, ft,
            get_expected_ad_count(platform, label, FanMilli(fans_in_wan)),
            GrowthRatio(ft, fans_in_wan, np), sav, label_params[label][3], np)

\* lines 114-133, given ft
YearAt(year, ft, fans_in_wan, platform, label, sav, np) ==
    YearRow(year, ft,
            get_expected_ad_count(platform, label, FanMilli(ft)),
            GrowthRatio(ft, fans_in_wan, np), sav, label_params[label][3], np)

\* the body of the loop of predict_value for one year
YearOf(year, fans_in_wan, platform, label, sav, growth_rate) ==
    YearAt(year,
           ProjectedFans(fans_in_wan, platform, label, year, growth_rate),
           fans_in_wan, platform, label, sav, growth_rate.none)

\* the loop of lines 113-133 from years[i] on
RECURSIVE PredictFrom(_, _, _, _, _, _, _, _)
PredictStep(i, results, row, fans_in_wan, platform, label, sav, years, growth_rate) ==
    IF row.status # "ok" THEN row
    ELSE PredictFrom(i + 1, Append(results, row.value), fans_in_wan,
                     platform, label, sav, years, growth_rate)

PredictFrom(i, results, fans_in_wan, platform, label, sav, years, growth_rate) ==
    IF i > Len(years) THEN [status |-> "ok", value |-> results]
    ELSE PredictStep(i, results,
                     YearOf(years[i], fans_in_wan, platform, label, sav,
                            growth_rate),
                     fans_in_wan, platform, label, sav, years, growth_rate)

\* lines 101-135, given fans / 10000
PredictWith(fans_in_wan, platform, label, single_ad_value, years, growth_rate) ==
    PredictFrom(1, <<>>, fans_in_wan, platform, label,
                SingleAdValueOf(single_ad_value, platform, label,
                                fans_in_wan),
                years, growth_rate)

\* mutant of predict_value: the parameters are not checked
predict_valueUnchecked(fans, platform, label, single_ad_value, years, growth_rate) ==
    IF platform \notin DOMAIN platform_params
       \/ label \notin DOMAIN label_params
    THEN [status |-> "ok", value |-> <<>>]
    ELSE PredictWith(FFromRatio(fans, 10000), platform, label,
                     single_ad_value, years, growth_rate)

\* BloggerValuePredictor.predict_value: fans a whole number of followers,
\* single_ad_value and growth_rate None or a float
predict_value(fans, platform, label, single_ad_value, years, growth_rate) ==
    IF platform \notin DOMAIN platform_params THEN [status |-> "ValueError"]
    ELSE IF label \notin DOMAIN label_params THEN [status |-> "ValueError"]
    ELSE PredictWith(FFromRatio(fans, 10000), platform, label,
                     single_ad_value, years, growth_rate)

\* whether a finite float is a whole number (r == int(r)), and |int(r)|
IsWhole(f) == f.e >= 0 \/ BLowZero(f.m, -f.e)

IntOf(f) ==
    IF f.e >= 0 THEN BToNat(BShl(f.m, f.e)) ELSE BToNat(BShr(f.m, -f.e))

\* f"{r:.2f}" of a float r >= 0
Fixed2(c) ==
    PyStr(c \div 100) \o "." \o (IF c % 100 < 10 THEN "0" ELSE "")
    \o PyStr(c % 100)

\* lines 349-352 and the like: f"{int(r)}" if r == int(r), else f"{r:.2f}",
\* with the unit after it; int(r) raises for NaN and for an infinity
FormatAmount(f, unit) ==
    IF f = FNaN THEN [status |-> "ValueError"]
    ELSE IF ~IsFinite(f) THEN [status |-> "OverflowError"]
    ELSE [status |-> "ok",
          value |-> (IF f.s < 0 THEN "-" ELSE "")
                    \o (IF IsWhole(f) THEN PyStr(IntOf(f))
                        ELSE Fixed2(Hundredths(f)))
                    \o unit]

\* the entries of column k of the rows, formatted
Formatted(rows, k, unit) ==
    [i \in 1..Len(rows) |-> FormatAmount(rows[i][k], unit)]

\* the first entry that raised, if one did
Failed(cells) == \E i \in 1..Len(cells) : cells[i].status # "ok"

FirstFailure(cells) ==
    cells[CHOOSE i \in 1..Len(cells) :
            /\ cells[i].status # "ok"
            /\ \A j \in 1..(i - 1) : cells[j].status = "ok"]

\* sum(r[3] for r in results) and sum(r[2] for r in results), over the
\* first i rows, added one after the other
RECURSIVE SumRevenue(_, _)
SumRevenue(rows, i) ==
    IF i = 0 THEN FZero ELSE NpAdd(SumRevenue(rows, i - 1), rows[i][4])

\* mutant of SumAds: the ad count of the last year
SumAdsLast(rows, i) == IF i = 0 THEN 0 ELSE rows[i][3]

RECURSIVE SumAds(_, _)
SumAds(rows, i) == IF i = 0 THEN 0 ELSE SumAds(rows, i - 1) + rows[i][3]

\* lines 343-391, given the formatted columns and the total
SummaryTable(rows, fans_data, income_data, total_income, total_value, np) ==
    IF Failed(fans_data) THEN FirstFailure(fans_data)
    ELSE IF Failed(income_data) THEN FirstFailure(income_data)
    ELSE IF total_income.status # "ok" THEN total_income
    ELSE [status |-> "ok",
          value |->
            [years |-> [i \in 1..Len(rows) |->
                            "di" \o PyStr(rows[i][1]) \o "nian"]
                       \o <<"wunianzongji">>,
             fans |-> [i \in 1..Len(rows) |-> fans_data[i].value]
                      \o <<fans_data[Len(rows)].value>>,
             ad_counts |-> [i \in 1..Len(rows) |->
                                PyStr(rows[i][3]) \o "tiao"]
                           \o <<PyStr(SumAds(rows, Len(rows))) \o "tiao">>,
             income |-> [i \in 1..Len(rows) |-> income_data[i].value]
                        \o <<total_income.value>>,
             total_value |-> Round2(total_value, np)]]

\* lines 343-391, given what predict_value gave; np says that the revenues
\* are numpy floats
SummaryOf(results, np) ==
    IF results.status # "ok" THEN results
    ELSE SummaryTable(results.value,
                      Formatted(results.value, 2, "wan"),
                      Formatted(results.value, 4, "wanyuan"),
                      FormatAmount(SumRevenue(results.value,
                                              Len(results.value)),
                                   "wanyuan"),
                      SumRevenue(results.value, Len(results.value)), np)

\* BloggerValuePredictor.create_summary_table
create_summary_table(fans, platform, label, single_ad_value, growth_rate) ==
    SummaryOf(predict_value(fans, platform, label, single_ad_value,
                            <<1, 2, 3, 4, 5>>, growth_rate),
              growth_rate.none \/ single_ad_value.none)

(***************************************************************************)
(* The objects that calls share.  The tables are module-level or instance  *)
(* objects that live as long as the process; a call that returns a list or *)
(* a dict hands its caller a reference to an object, which the caller may  *)
(* then change.                                                            *)
(***************************************************************************)
\* pinyin_mapping of get_categories: the sort key of each category, a string
\* given by its code points
pinyin_mapping ==
    "sannong" :> <<115, 97, 110, 110, 111, 110, 103>> @@
    "erciyan" :> <<101, 114, 99, 105, 121, 97, 110>> @@
    "jiankang" :> <<106, 105, 97, 110, 107, 97, 110, 103>> @@
    "xingquaihao" :> <<120, 105, 110, 103, 113, 117, 97, 105, 104, 97, 111>> @@
    "qita" :> <<113, 105, 116, 97>> @@
    "yiliaojiankang" :> <<121, 105, 108, 105, 97, 111, 106, 105, 97, 110, 107, 97, 110, 103>> @@
    "yule" :> <<121, 117, 108, 101>> @@
    "jiajujiazhuang" :> <<106, 105, 97, 106, 117, 106, 105, 97, 122, 104, 117, 97, 110, 103>> @@
    "youmogaoxiao" :> <<121, 111, 117, 109, 111, 103, 97, 111, 120, 105, 97, 111>> @@
    "yingshizongyi" :> <<121, 105, 110, 103, 115, 104, 105, 122, 111, 110, 103, 121, 105>> @@
    "qingganxinli" :> <<113, 105, 110, 103, 103, 97, 110, 120, 105, 110, 108, 105>> @@
    "caiyijineng" :> <<99, 97, 105, 121, 105, 106, 105, 110, 101, 110, 103>> @@
    "jiaoyupeixun" :> <<106, 105, 97, 111, 121, 117, 112, 101, 105, 120, 117, 110>> @@
    "wenhua" :> <<119, 101, 110, 104, 117, 97>> @@
    "lvyou" :> <<108, 118, 121, 111, 117>> @@
    "shishizixun" :> <<115, 104, 105, 115, 104, 105, 122, 105, 120, 117, 110>> @@
    "shishang" :> <<115, 104, 105, 115, 104, 97, 110, 103>> @@
    "muyingyuer" :> <<109, 117, 121, 105, 110, 103, 121, 117, 101, 114>> @@
    "qiche" :> <<113, 105, 99, 104, 101>> @@
    "youxi" :> <<121, 111, 117, 120, 105>> @@
    "shenghuo" :> <<115, 104, 101, 110, 103, 104, 117, 111>> @@
    "kexueKepu" :> <<107, 101, 120, 117, 101, 75, 101, 112, 117>> @@
    "keji" :> <<107, 101, 106, 105>> @@
    "meizhuang" :> <<109, 101, 105, 122, 104, 117, 97, 110, 103>> @@
    "meironggenghu" :> <<109, 101, 105, 114, 111, 110, 103, 103, 101, 110, 103, 104, 117>> @@
    "meishi" :> <<109, 101, 105, 115, 104, 105>> @@
    "zhichang" :> <<122, 104, 105, 99, 104, 97, 110, 103>> @@
    "mengchong" :> <<109, 101, 110, 103, 99, 104, 111, 110, 103>> @@
    "caijing" :> <<99, 97, 105, 106, 105, 110, 103>> @@
    "yundongjianshen" :> <<121, 117, 110, 100, 111, 110, 103, 106, 105, 97, 110, 115, 104, 101, 110>> @@
    "yinyue" :> <<121, 105, 110, 121, 117, 101>> @@
    "yanzhi" :> <<121, 97, 110, 122, 104, 105>>

\* Python's a < b on two strings
RECURSIVE StrLess(_, _)
StrLess(a, b) ==
    IF b = <<>> THEN FALSE
    ELSE IF a = <<>> THEN TRUE
    ELSE IF a[1] # b[1] THEN a[1] < b[1]
    ELSE StrLess(Tail(a), Tail(b))

\* one step of the stable sort: x, which came after every element of
\* `sorted`, goes behind the elements whose key is not greater than its own
InsertByPinyin(sorted, x) ==
    LET n == Cardinality({i \in 1..Len(sorted) :
                 ~StrLess(pinyin_mapping[x], pinyin_mapping[sorted[i]])})
    IN  SubSeq(sorted, 1, n) \o <<x>> \o SubSeq(sorted, n + 1, Len(sorted))

\* valid_categories.sort(key=lambda x: pinyin_mapping.get(x, x))
RECURSIVE SortByPinyin(_)
SortByPinyin(list) ==
    IF list = <<>> THEN <<>>
    ELSE InsertByPinyin(SortByPinyin(SubSeq(list, 1, Len(list) - 1)),
                        list[Len(list)])

\* mutant of get_categories: the keys are returned in the order of the dict
get_categoriesUnsorted(keys) == keys

\* get_categories, given the keys of DOUYIN_FUNCTIONS in their order
get_categories(keys) == SortByPinyin(keys)

\* mutant of get_follower_breakpoints: only the ends of the segments
get_follower_breakpointsEnds(keys, functions) ==
    IF keys = <<>> \/ functions[keys[1]] = <<>>
    THEN [status |-> "IndexError"]
    ELSE [status |-> "ok",
          value |-> [i \in 1..Len(functions[keys[1]]) |->
                        functions[keys[1]][i].end]]

\* get_follower_breakpoints, given the keys and the values of
\* DOUYIN_FUNCTIONS; list(...)[0] and segments[0] raise IndexError
get_follower_breakpoints(keys, functions) ==
    IF keys = <<>> \/ functions[keys[1]] = <<>>
    THEN [status |-> "IndexError"]
    ELSE LET segments == functions[keys[1]]
         IN  [status |-> "ok",
              value |-> <<segments[1].start>>
                        \o [i \in 1..Len(segments) |-> segments[i].end]]

\* the objects of the process before any call: the module-level dicts of
\* pricing_module.py (`keys` is the key order that DOUYIN_FUNCTIONS keeps),
\* the dicts of a BloggerValuePredictor, the DataFrame
\* of an AdMatrixGenerator and the list that is the default of the `years`
\* parameter of predict_value; `caller` is the place of the object the
\* caller was handed last
Tables ==
    [keys |-> [origin |-> "module", items |-> CategoryKeys],
     DOUYIN_FUNCTIONS |-> [origin |-> "module", items |-> DOUYIN_FUNCTIONS],
     COEFF_MATRIX |-> [origin |-> "module", items |-> COEFF_MATRIX],
     platform_params |-> [origin |-> "module", items |-> platform_params],
     label_params |-> [origin |-> "module", items |-> label_params],
     _matrix |-> [origin |-> "module", items |-> Matrix],
     years |-> [origin |-> "module", items |-> <<1, 2, 3, 4, 5>>],
     caller |-> [origin |-> "none", items |-> <<>>]]

TableAddresses == DOMAIN Tables \ {"caller"}

\* what a call hands to its caller: an immutable value or an exception, a
\* reference to an object it built, or a reference to an object at `addr`
\* that existed before, left with the contents `items`
Value(r) == [kind |-> "value", value |-> r]

New(items) == [kind |-> "new", items |-> items]

Shared(addr, items) == [kind |-> "shared", addr |-> addr, items |-> items]

\* the list or dict a function built and returns, or the exception it raised
Built(r) == IF r.status = "ok" THEN New(r.value) ELSE Value(r)

\* a result computed from tables that are not the ones the process started
\* with
Stale == [status |-> "stale"]

\* the value v, which the operators above compute from the initial tables,
\* is what the code computes when the tables it reads, `read`, are still
\* the initial ones
OnTables(h, read, v) ==
    IF \A a \in read : h[a] = Tables[a] THEN v ELSE Stale

PricingTables == {"keys", "DOUYIN_FUNCTIONS", "COEFF_MATRIX"}

PredictTables == {"platform_params", "label_params", "_matrix"}

\* mutant of CategoriesObject: the key list of the table itself is sorted
\* in place and returned
CategoriesObjectAliased(h) ==
    Shared("keys", get_categories(h.keys.items))

\* lines 512-517: list(DOUYIN_FUNCTIONS.keys()) is a new list, which is
\* sorted and returned
CategoriesObject(h) == New(get_categories(h.keys.items))

\* predict_value called without `years`: the loop runs over the default
\* list as it is now
PredictObject(h, a) ==
    OnTables(h, PredictTables,
             Built(predict_value(a.fans, a.platform, a.label,
                                 a.single_ad_value, h.years.items,
                                 a.growth_rate)))

\* create_summary_table: its call of predict_value passes a list of its own
\* as `years`
SummaryObject(h, a) ==
    OnTables(h, PredictTables,
             Built(create_summary_table(a.fans, a.platform, a.label,
                                        a.single_ad_value, a.growth_rate)))

PlatformsObject == New(get_platforms)

BreakpointsObject(h) ==
    Built(get_follower_breakpoints(h.keys.items, h.DOUYIN_FUNCTIONS.items))

PriceObject(h, a) ==
    Value(OnTables(h, PricingTables,
                   get_price(a.platform, a.category, a.followers, a.kwargs)))

AllPricesObject(h, a) ==
    OnTables(h, PricingTables,
             Built(get_all_platforms_prices(a.category, a.followers,
                                            a.kwargs)))

\* get_expected_ad_count on the DataFrame as it is now
AdCountObject(h, a) ==
    AdCountOf(QueryResult(h._matrix.items, get_fan_range(a.fans_milli),
                          a.platform), a.label)

RatioObject(h, a) == DevelopmentRatioOf(AdCountObject(h, a), a.actual_ads)

\* what the call of `name` with the arguments a does on the heap h
Handle(h, name, a) ==
    CASE name = "get_categories" -> CategoriesObject(h)
      [] name = "get_platforms" -> PlatformsObject
      [] name = "get_follower_breakpoints" -> BreakpointsObject(h)
      [] name = "get_price" -> PriceObject(h, a)
      [] name = "get_all_platforms_prices" -> AllPricesObject(h, a)
      [] name = "get_expected_ad_count" -> Value(AdCountObject(h, a))
      [] name = "calculate_development_ratio" -> Value(RatioObject(h, a))
      [] name = "predict_value" -> PredictObject(h, a)
      [] name = "create_summary_table" -> SummaryObject(h, a)

\* the calls that return a dict; the other objects are lists
DictCalls == {"get_all_platforms_prices", "create_summary_table"}

\* what the caller can do to the object it holds: clear(), and for a
\* list del x[0] and x.extend(x)
Mutations(object) ==
    {<<>>} \cup (IF object.origin \notin DictCalls /\ object.items # <<>>
                 THEN {Tail(object.items), object.items \o object.items}
                 ELSE {})

(***************************************************************************)
(* The state machine.  A behaviour of the first five specifications is one *)
(* call: the caller chooses an operation and its arguments (pc = "call"),  *)
(* and the operation returns a value or raises (pc = "return", result).  A *)
(* curve object that a constructor call returned can then be evaluated.    *)
(* SpecHeap is a session of calls: heap holds the tables and the object    *)
(* the caller was returned, held the addresses the caller has a reference  *)
(* to.                                                                     *)
(***************************************************************************)
VARIABLES pc, op, args, result, heap, held

vars == <<pc, op, args, result, heap, held>>

\* ---- bounds of the inputs ----
\* interior points tried in each segment: start + j * length / SegmentParts
SegmentParts == 4
\* points tried beyond the last breakpoint
MaxBeyond == 2
\* as SegmentParts, for the calls of get_price
PriceParts == 2
\* length of the breakpoint lists ContinuousPiecewiseFunction is built from,
\* and the largest follower count in them
MaxBreakpoints == 3
MaxCoord == 2
\* largest follower value given to get_fan_range, in ten-thousands
MaxFans == 1001


Categories == SeqRange(CategoryKeys)

\* a category string that is no key of the tables
CategoryInputs == Categories \cup {"unknown"}

\* the four platforms and a string that is none of them
PlatformInputs == SeqRange(get_platforms) \cup {"weibo"}

\* no keyword argument, is_celebrity=True, is_celebrity=False
KwargsInputs ==
    {[k \in {} |-> TRUE]} \cup {[k \in {"is_celebrity"} |-> b] : b \in BOOLEAN}

\* follower counts tried on the curve of category c: every breakpoint, the
\* count just below it (-1 below the first), `parts` - 1 points inside each
\* segment and MaxBeyond points beyond the last breakpoint
FollowerPoints(c, parts) ==
    LET bp == BreakpointTable[c]
        last == bp[Len(bp)][1]
    IN  {bp[i][1] : i \in 1..Len(bp)}
        \cup {bp[i][1] - 1 : i \in 1..Len(bp)}
        \cup {bp[i][1] + (j * (bp[i + 1][1] - bp[i][1])) \div parts :
                 i \in 1..(Len(bp) - 1), j \in 1..(parts - 1)}
        \cup {last + (k * last) \div MaxBeyond : k \in 1..MaxBeyond}

FollowerInputs(parts) == UNION {FollowerPoints(c, parts) : c \in Categories}

\* breakpoint lists of length 0..MaxBreakpoints over small coordinates
RECURSIVE SeqsUpTo(_, _)
SeqsUpTo(S, n) ==
    IF n = 0 THEN {<<>>}
    ELSE LET shorter == SeqsUpTo(S, n - 1)
         IN  shorter \cup {Append(q, e) : q \in {r \in shorter : Len(r) = n - 1}, e \in S}

\* the prices of those lists
PriceLevels == {100, 200}

BreakpointInputs == SeqsUpTo((0..MaxCoord) \X PriceLevels, MaxBreakpoints)

Pending == [status |-> "pending"]

InitCurve ==
    /\ pc = "call"
    /\ result = Pending
    /\ heap = Tables
    /\ held = {}
    /\ \/ /\ op = "ContinuousPiecewiseFunction"
          /\ args \in [breakpoints : BreakpointInputs]
       \/ /\ op = "base_func"
          /\ \E category \in Categories :
                 args \in [category : {category},
                           followers : FollowerPoints(category, SegmentParts)]

InitPrice ==
    /\ pc = "call"
    /\ result = Pending
    /\ heap = Tables
    /\ held = {}
    /\ \/ /\ op = "get_price"
          /\ args \in [platform : PlatformInputs, category : CategoryInputs,
                       followers : FollowerInputs(PriceParts),
                       kwargs : KwargsInputs]
       \/ /\ op = "get_all_platforms_prices"
          /\ args \in [category : CategoryInputs,
                       followers : FollowerInputs(PriceParts),
                       kwargs : KwargsInputs]

\* fan values tried: every multiple of 0.001 within 0.002 of a whole number
\* of ten-thousands up to MaxFans (9.998, 9.999, 10.0, 10.001, 10.002, ...)
FanInputs ==
    {n * 1000 + d : n \in 0..MaxFans, d \in (-2)..2} \ {-2, -1}

InitFans ==
    /\ pc = "call"
    /\ result = Pending
    /\ heap = Tables
    /\ held = {}
    /\ op = "get_fan_range"
    /\ args \in [fans_milli : FanInputs]

\* ---- the ad matrix ----
\* largest actual ad count given to calculate_development_ratio
MaxActualAds == 9

\* label strings: the 32 labels, a string that names nothing, and the names
\* of the two other columns of the DataFrame
LabelInputs == CategoryInputs \cup {"pingtai", "fensiliangji"}

\* fan values (thousandths of ten-thousands): 0, each bracket boundary and
\* the value 0.001 below it, and a value in the top bracket
MatrixFanInputs ==
    {0, 2000 * 1000}
    \cup UNION {{t * 1000 - 1, t * 1000} : t \in {10, 50, 100, 500, 1000}}

InitMatrix ==
    /\ pc = "call"
    /\ result = Pending
    /\ heap = Tables
    /\ held = {}
    /\ \/ /\ op = "get_expected_ad_count"
          /\ args \in [platform : PlatformInputs, label : LabelInputs,
                       fans_milli : MatrixFanInputs]
       \/ /\ op = "calculate_development_ratio"
          /\ args \in [platform : PlatformInputs, label : LabelInputs,
                       fans_milli : MatrixFanInputs,
                       actual_ads : 0..MaxActualAds]

GetExpectedAdCount ==
    /\ pc = "call"
    /\ op = "get_expected_ad_count"
    /\ result' = get_expected_ad_count(args.platform, args.label,
                                       args.fans_milli)
    /\ pc' = "return"
    /\ UNCHANGED <<op, args, heap, held>>

CalculateDevelopmentRatio ==
    /\ pc = "call"
    /\ op = "calculate_development_ratio"
    /\ result' = calculate_development_ratio(args.platform, args.label,
                                             args.fans_milli, args.actual_ads)
    /\ pc' = "return"
    /\ UNCHANGED <<op, args, heap, held>>

NextMatrix == GetExpectedAdCount \/ CalculateDevelopmentRatio

SpecMatrix == InitMatrix /\ [][NextMatrix]_vars

\* ---- the places that label a development ratio ----
LabelOps ==
    {"create_development_visualization", "create_ad_comparison_chart",
     "development_details"}

\* erciyan has 5 expected ads in the lowest fan range of douyin (4 ads are
\* the ratio 0.8, 6 ads 1.2), sannong 8; weibo is in no row
InitLabel ==
    /\ pc = "call"
    /\ result = Pending
    /\ heap = Tables
    /\ held = {}
    /\ op \in LabelOps
    /\ args \in [platform : {"douyin", "weibo"},
                 label : {"erciyan", "sannong", "unknown", "pingtai"},
                 fans_milli : MatrixFanInputs,
                 actual_ads : 0..MaxActualAds]

CreateDevelopmentVisualization ==
    /\ pc = "call"
    /\ op = "create_development_visualization"
    /\ result' = create_development_visualization(
                      args.platform, args.label, args.fans_milli,
                      args.actual_ads)
    /\ pc' = "return"
    /\ UNCHANGED <<op, args, heap, held>>

CreateAdComparisonChart ==
    /\ pc = "call"
    /\ op = "create_ad_comparison_chart"
    /\ result' = create_ad_comparison_chart(
                      args.platform, args.label, args.fans_milli,
                      args.actual_ads)
    /\ pc' = "return"
    /\ UNCHANGED <<op, args, heap, held>>

DevelopmentDetails ==
    /\ pc = "call"
    /\ op = "development_details"
    /\ result' = development_details(args.platform, args.label,
                                     args.fans_milli, args.actual_ads)
    /\ pc' = "return"
    /\ UNCHANGED <<op, args, heap, held>>

NextLabel ==
    CreateDevelopmentVisualization \/ CreateAdComparisonChart
    \/ DevelopmentDetails

SpecLabel == InitLabel /\ [][NextLabel]_vars

\* follower counts passed to predict_value: 0 and one count in each of
\* MaxFanPower + 1 orders of size, from 0.8 to 1064.8 ten-thousands, each a
\* little below a bracket boundary or a little above one
MaxFanPower == 3

\* and 199 ten-thousands, which the first years take past the fan_limit
\* 200 of bilibili
PredictFans == {0, 1990000} \cup {8000 * 11^k : k \in 0..MaxFanPower}

\* growth rates in percent: the built-in model, none, a rise and a fall
GrowthInputs == {None} \cup {Some(FFromInt(g)) : g \in {0, 10, -20}}

\* prices of one ad: estimated, 10 and 0.5
AdValueInputs == {None, Some(FFromInt(10)), Some(Dec(5))}

\* the default list of years, one out of order, one with a repeated year and
\* year 0, and the empty list
DefaultYears == <<1, 2, 3, 4, 5>>

YearsInputs == {DefaultYears, <<3, 1>>, <<0, 2, 2>>, <<>>}

\* predict_value: every platform and label with one follower count under
\* the built-in growth model, and one label on two platforms with every
\* follower count, price, list of years and growth rate;
\* create_summary_table: every platform with a label and with none, and one
\* platform and label with every follower count, price and growth rate
InitPredict ==
    /\ pc = "call"
    /\ result = Pending
    /\ heap = Tables
    /\ held = {}
    /\ \/ /\ op = "predict_value"
          /\ \/ args \in [fans : {522841}, platform : PlatformInputs,
                          label : CategoryInputs,
                          single_ad_value : {Some(FFromInt(10))},
                          years : {DefaultYears},
                          growth_rate : {None}]
             \/ args \in [fans : PredictFans,
                          platform : {"douyin", "bilibili"},
                          label : {"meishi"},
                          single_ad_value : AdValueInputs,
                          years : YearsInputs,
                          growth_rate : GrowthInputs]
       \/ /\ op = "create_summary_table"
          /\ \/ args \in [fans : {522841}, platform : PlatformInputs,
                          label : {"meishi", "unknown"},
                          single_ad_value : {Some(FFromInt(10))},
                          growth_rate : {None}]
             \/ args \in [fans : PredictFans, platform : {"douyin"},
                          label : {"meishi"},
                          single_ad_value : AdValueInputs,
                          growth_rate : GrowthInputs]

PredictValue ==
    /\ pc = "call"
    /\ op = "predict_value"
    /\ result' = predict_value(args.fans, args.platform, args.label,
                               args.single_ad_value, args.years,
                               args.growth_rate)
    /\ pc' = "return"
    /\ UNCHANGED <<op, args, heap, held>>

CreateSummaryTable ==
    /\ pc = "call"
    /\ op = "create_summary_table"
    /\ result' = create_summary_table(args.fans, args.platform, args.label,
                                      args.single_ad_value, args.growth_rate)
    /\ pc' = "return"
    /\ UNCHANGED <<op, args, heap, held>>

NextPredict == PredictValue \/ CreateSummaryTable

SpecPredict == InitPredict /\ [][NextPredict]_vars

\* ---- a session: calls one after the other on the same objects ----
HeapPriceInputs ==
    [platform : {"douyin"}, category : {CategoryKeys[1]},
     followers : {0, 60000, 100000}, kwargs : {[k \in {} |-> TRUE]}]

HeapMatrixInputs ==
    [platform : {"douyin"}, label : {"meishi"}, fans_milli : {10000},
     actual_ads : {0, 3}]

HeapPredictInputs ==
    [fans : {88000}, platform : {"douyin"}, label : {"meishi"},
     single_ad_value : {Some(FFromInt(10))}, growth_rate : {None}]

NoArgs == [k \in {} |-> TRUE]

InitHeap ==
    /\ pc = "idle"
    /\ op = "none"
    /\ args = NoArgs
    /\ result = Pending
    /\ heap = Tables
    /\ held = {}

\* the call returns: an object it built takes the caller's place, and the
\* caller holds what it was handed
Deliver(name, a, d) ==
    /\ op' = name
    /\ args' = a
    /\ pc' = "return"
    /\ IF d.kind = "value"
       THEN /\ result' = d.value
            /\ UNCHANGED <<heap, held>>
       ELSE IF d.kind = "new"
       THEN /\ heap' = [heap EXCEPT !.caller =
                                        [origin |-> name, items |-> d.items]]
            /\ held' = held \cup {"caller"}
            /\ result' = [status |-> "ok", ref |-> "caller"]
       ELSE /\ heap' = [heap EXCEPT ![d.addr].items = d.items]
            /\ held' = held \cup {d.addr}
            /\ result' = [status |-> "ok", ref |-> d.addr]

\* a call starts when the caller is not inside one
Idle == pc \in {"idle", "return", "mutated"}

HeapGetCategories ==
    /\ Idle
    /\ Deliver("get_categories", NoArgs, CategoriesObject(heap))

HeapGetPlatforms ==
    /\ Idle
    /\ Deliver("get_platforms", NoArgs, PlatformsObject)

HeapGetFollowerBreakpoints ==
    /\ Idle
    /\ Deliver("get_follower_breakpoints", NoArgs, BreakpointsObject(heap))

HeapGetPrice ==
    /\ Idle
    /\ \E a \in HeapPriceInputs :
           Deliver("get_price", a, PriceObject(heap, a))

HeapGetAllPlatformsPrices ==
    /\ Idle
    /\ \E a \in HeapPriceInputs :
           Deliver("get_all_platforms_prices", a, AllPricesObject(heap, a))

HeapGetExpectedAdCount ==
    /\ Idle
    /\ \E a \in HeapMatrixInputs :
           Deliver("get_expected_ad_count", a, Value(AdCountObject(heap, a)))

HeapCalculateDevelopmentRatio ==
    /\ Idle
    /\ \E a \in HeapMatrixInputs :
           Deliver("calculate_development_ratio", a,
                   Value(RatioObject(heap, a)))

HeapPredictValue ==
    /\ Idle
    /\ \E a \in HeapPredictInputs :
           Deliver("predict_value", a, PredictObject(heap, a))

HeapCreateSummaryTable ==
    /\ Idle
    /\ \E a \in HeapPredictInputs :
           Deliver("create_summary_table", a, SummaryObject(heap, a))

\* the caller changes the list or dict that the last call returned
Mutate ==
    /\ pc = "return"
    /\ "ref" \in DOMAIN result
    /\ result.ref \in held
    /\ \E m \in Mutations(heap[result.ref]) :
           heap' = [heap EXCEPT ![result.ref].items = m]
    /\ pc' = "mutated"
    /\ UNCHANGED <<op, args, result, held>>

NextHeap ==
    \/ HeapGetCategories
    \/ HeapGetPlatforms
    \/ HeapGetFollowerBreakpoints
    \/ HeapGetPrice
    \/ HeapGetAllPlatformsPrices
    \/ HeapGetExpectedAdCount
    \/ HeapCalculateDevelopmentRatio
    \/ HeapPredictValue
    \/ HeapCreateSummaryTable
    \/ Mutate

SpecHeap == InitHeap /\ [][NextHeap]_vars

Init ==
    \/ InitCurve \/ InitPrice \/ InitFans \/ InitMatrix \/ InitPredict
    \/ InitHeap \/ InitLabel

\* ContinuousPiecewiseFunction(breakpoints)
Construct ==
    /\ pc = "call"
    /\ op = "ContinuousPiecewiseFunction"
    /\ result' = ContinuousPiecewiseFunction(args.breakpoints)
    /\ pc' = "return"
    /\ UNCHANGED <<op, args, heap, held>>

\* f(x) for the curve object f that the constructor returned
CallConstructed ==
    /\ pc = "return"
    /\ op = "ContinuousPiecewiseFunction"
    /\ result.status = "ok"
    /\ \E x \in (-1)..(MaxCoord + 1) :
        /\ op' = "call"
        /\ args' = [breakpoints |-> args.breakpoints,
                    segments |-> result.segments, x |-> x]
        /\ result' = Call(result.segments, x)
    /\ pc' = "return"
    /\ UNCHANGED <<heap, held>>

\* DOUYIN_FUNCTIONS[category](followers), the base price of get_price
CallCurve ==
    /\ pc = "call"
    /\ op = "base_func"
    /\ result' = Call(DOUYIN_FUNCTIONS[args.category], args.followers)
    /\ pc' = "return"
    /\ UNCHANGED <<op, args, heap, held>>

GetPrice ==
    /\ pc = "call"
    /\ op = "get_price"
    /\ result' = get_price(args.platform, args.category, args.followers,
                           args.kwargs)
    /\ pc' = "return"
    /\ UNCHANGED <<op, args, heap, held>>

GetAllPlatformsPrices ==
    /\ pc = "call"
    /\ op = "get_all_platforms_prices"
    /\ result' = get_all_platforms_prices(args.category, args.followers,
                                          args.kwargs)
    /\ pc' = "return"
    /\ UNCHANGED <<op, args, heap, held>>

GetFanRange ==
    /\ pc = "call"
    /\ op = "get_fan_range"
    /\ result' = [status |-> "ok", value |-> get_fan_range(args.fans_milli)]
    /\ pc' = "return"
    /\ UNCHANGED <<op, args, heap, held>>

NextCurve == Construct \/ CallConstructed \/ CallCurve
NextPrice == GetPrice \/ GetAllPlatformsPrices
NextFans == GetFanRange

Next ==
    \/ NextCurve \/ NextPrice \/ NextFans \/ NextMatrix \/ NextPredict
    \/ NextHeap \/ NextLabel

Spec == Init /\ [][Next]_vars
SpecCurve == InitCurve /\ [][NextCurve]_vars
SpecPrice == InitPrice /\ [][NextPrice]_vars
SpecFans == InitFans /\ [][NextFans]_vars

(***************************************************************************)
(* Exact comparisons.  A float is a dyadic rational, so its distance to    *)
(* another float or to a fraction is computed without rounding.            *)
(***************************************************************************)
\* the tolerance of the specification's testable properties is 1e-6
ToleranceInverse == 10^6

BDist(a, b) == IF BCmp(a, b) >= 0 THEN BSub(a, b) ELSE BSub(b, a)

\* whether m * 2^e <= unit / ToleranceInverse, for naturals m and unit
SmallEnough(m, e, unit) ==
    BCmp(BMul(BShl(m, Max(0, e)), BFromNat(ToleranceInverse)),
         BShl(unit, Max(0, -e))) <= 0

\* |a - b| <= 1e-6 for floats a and b
FWithin(a, b) ==
    LET e  == Min(a.e, b.e)
        am == BShl(a.m, a.e - e)
        bm == BShl(b.m, b.e - e)
    IN  SmallEnough(IF a.s = b.s THEN BDist(am, bm) ELSE BAdd(am, bm), e, <<1>>)

\* |f - num / den| <= 1e-6 for a float f >= 0, a natural num of any width
\* and an integer den > 0
WithinRatio(f, num, den) ==
    /\ f.s = 1
    /\ LET fm == BMul(BShl(f.m, Max(0, f.e)), BFromNat(den))
           nm == BShl(num, Max(0, -f.e))
       IN  BCmp(BMul(BDist(fm, nm), BFromNat(ToleranceInverse)),
                BShl(BFromNat(den), Max(0, -f.e))) <= 0

\* f = num / den exactly
EqualsRatio(f, num, den) ==
    /\ f.s = 1
    /\ BMul(BShl(f.m, Max(0, f.e)), BFromNat(den)) = BShl(num, Max(0, -f.e))

\* the numerator, over the denominator x2 - x1, of the line through the
\* breakpoints p1 = (x1, y1) and p2 = (x2, y2) at x >= x1:
\* y1 + (y2 - y1) * (x - x1) / (x2 - x1)
LineNum(p1, p2, x) ==
    BAdd(BMul(BFromNat(p1[2]), BFromNat(p2[1] - p1[1])),
         BMul(BFromNat(p2[2] - p1[2]), BFromNat(x - p1[1])))

LineDen(p1, p2) == p2[1] - p1[1]

Returned(name) == pc = "return" /\ op = name

(***************************************************************************)
(* C1.  For every category and every follower count x with                 *)
(* x_i <= x < x_(i+1) for two adjacent breakpoints of the category's       *)
(* curve, the base price is the linear interpolation                       *)
(* y_i + (y_(i+1) - y_i) * (x - x_i) / (x_(i+1) - x_i), to the float       *)
(* tolerance 1e-6 of the specification, and it is exactly the float        *)
(* slope * x + intercept of that pair's segment (slope = dy / dx,          *)
(* intercept = y_i - slope * x_i); sannong at 30,000 followers gives       *)
(* 3,500 exactly.                                                          *)
(***************************************************************************)
C1_Interpolation ==
    Returned("base_func") =>
        LET bp == BreakpointTable[args.category]
            x  == args.followers
        IN  /\ \A i \in 1..(Len(bp) - 1) :
                   (bp[i][1] <= x /\ x < bp[i + 1][1]) =>
                       /\ result.status = "ok"
                       /\ WithinRatio(result.value,
                                      LineNum(bp[i], bp[i + 1], x),
                                      LineDen(bp[i], bp[i + 1]))
                       /\ result.value
                              = SegmentValue(Segment(bp[i], bp[i + 1]), x)
            /\ (args.category = "sannong" /\ x = 30000) =>
                   result = [status |-> "ok", value |-> FFromInt(3500)]

\* a base price strictly inside a segment: sannong at 30,000 is 3,500
C1_Witness ==
    /\ Returned("base_func")
    /\ args = [category |-> "sannong", followers |-> 30000]
    /\ result = [status |-> "ok", value |-> FFromInt(3500)]

(***************************************************************************)
(* C2 (as the code has it).  Every category curve is continuous at its     *)
(* breakpoints up to float rounding: at every interior breakpoint x* the   *)
(* segment ending at x* and the segment starting at x* give values within  *)
(* 1e-6 of each other, and evaluating the curve at a breakpoint returns    *)
(* the tabulated price exactly at every breakpoint but the last, and       *)
(* within 1e-6 at the last one (sannong: 0 -> 200, 60,000 -> 6,800).       *)
(***************************************************************************)
C2_ContinuousWithinTolerance ==
    Returned("base_func") =>
        LET bp   == BreakpointTable[args.category]
            segs == DOUYIN_FUNCTIONS[args.category]
            x    == args.followers
        IN  /\ \A i \in 1..Len(bp) :
                   bp[i][1] = x =>
                       /\ result.status = "ok"
                       /\ WithinRatio(result.value, BFromNat(bp[i][2]), 1)
                       /\ i < Len(bp) => result.value = FFromInt(bp[i][2])
                       /\ (1 < i /\ i < Len(bp)) =>
                              FWithin(SegmentValue(segs[i - 1], x),
                                      SegmentValue(segs[i], x))
            /\ (args.category = "sannong" /\ x = 0) =>
                   result.value = FFromInt(200)
            /\ (args.category = "sannong" /\ x = 60000) =>
                   result.value = FFromInt(6800)

\* an interior breakpoint evaluated: sannong at 60,000 is 6,800
C2_Witness ==
    /\ Returned("base_func")
    /\ args = [category |-> "sannong", followers |-> 60000]
    /\ result = [status |-> "ok", value |-> FFromInt(6800)]

\* C2 as stated: the two segments meeting at an interior breakpoint give
\* equal values, and every breakpoint evaluates to exactly its tabulated
\* price
C2_ExactAtBreakpoints ==
    Returned("base_func") =>
        LET bp   == BreakpointTable[args.category]
            segs == DOUYIN_FUNCTIONS[args.category]
            x    == args.followers
        IN  \A i \in 1..Len(bp) :
                bp[i][1] = x =>
                    /\ result = [status |-> "ok", value |-> FFromInt(bp[i][2])]
                    /\ (1 < i /\ i < Len(bp)) =>
                           SegmentValue(segs[i - 1], x) = SegmentValue(segs[i], x)

\* value(x) - value(lastBreakpointX) and lastSlope * (x - lastBreakpointX),
\* both as the floats the code's arithmetic gives
ExtrapolationRise(segs, last, v) == FSub(v, Call(segs, last).value)

ExtrapolationRun(segs, last, x) ==
    FMul(segs[Len(segs)].slope, FFromInt(x - last))

ExactlyTwice(a, b) ==
    /\ a.s = b.s
    /\ LET e == Min(a.e, b.e + 1)
       IN  BShl(a.m, a.e - e) = BShl(b.m, b.e + 1 - e)

NoKwargs == [k \in {} |-> TRUE]

Celebrity(b) == [k \in {"is_celebrity"} |-> b]

(***************************************************************************)
(* C4.  Coefficient neutrality: every category has a row in COEFF_MATRIX   *)
(* whose douyin entry is exactly 1, and for every category and every       *)
(* follower count >= 0, get_price on douyin without the celebrity flag     *)
(* returns the value of the category's base curve.                         *)
(***************************************************************************)
C4_CoefficientNeutrality ==
    /\ \A c \in DOMAIN DOUYIN_FUNCTIONS :
           /\ c \in DOMAIN COEFF_MATRIX
           /\ "douyin" \in DOMAIN COEFF_MATRIX[c]
           /\ COEFF_MATRIX[c]["douyin"] = FFromInt(1)
    /\ (/\ Returned("get_price")
        /\ args.platform = "douyin"
        /\ args.category \in Categories
        /\ args.followers >= 0
        /\ ~KwargsGet(args.kwargs, "is_celebrity", FALSE))
       => result = Call(DOUYIN_FUNCTIONS[args.category], args.followers)

\* the douyin price of sannong at 30,000 followers is the base price 3,500
C4_Witness ==
    /\ Returned("get_price")
    /\ args = [platform |-> "douyin", category |-> "sannong",
               followers |-> 30000, kwargs |-> NoKwargs]
    /\ result = [status |-> "ok", value |-> FFromInt(3500)]

(***************************************************************************)
(* C5.  Celebrity bonus: for the category yingshizongyi, every platform    *)
(* (listed or not) and every follower count, get_price with                *)
(* is_celebrity=True is exactly 2 times get_price with is_celebrity=False  *)
(* (and 2 times get_price without the flag).                               *)
(***************************************************************************)
C5_CelebrityDoubles ==
    (/\ Returned("get_price")
     /\ args.category = "yingshizongyi"
     /\ args.kwargs = Celebrity(TRUE))
    => LET plain == get_price(args.platform, args.category, args.followers,
                              Celebrity(FALSE))
           bare  == get_price(args.platform, args.category, args.followers,
                              NoKwargs)
       IN  /\ result.status = "ok" /\ plain.status = "ok" /\ bare = plain
           /\ ExactlyTwice(result.value, plain.value)

\* a celebrity price of yingshizongyi on a platform outside the matrix
C5_Witness ==
    /\ Returned("get_price")
    /\ args.category = "yingshizongyi"
    /\ args.platform = "weibo"
    /\ args.kwargs = Celebrity(TRUE)
    /\ args.followers = 60000
    /\ result.status = "ok"
    /\ result.value # FZero

(***************************************************************************)
(* C6.  For every category that is no key of the category curve table,     *)
(* get_price and get_all_platforms_prices raise an error and return no     *)
(* price, whatever the platform, the follower count and the flags.         *)
(***************************************************************************)
C6_UnknownCategoryFails ==
    (/\ Returned("get_price") \/ Returned("get_all_platforms_prices")
     /\ args.category \notin DOMAIN DOUYIN_FUNCTIONS)
    => /\ result.status = "ValueError"
       /\ "value" \notin DOMAIN result

\* get_all_platforms_prices of an unknown category has raised
C6_Witness ==
    /\ Returned("get_all_platforms_prices")
    /\ args.category = "unknown"
    /\ args.followers = 30000
    /\ result.status = "ValueError"

(***************************************************************************)
(* C7.  For a known category, a platform name outside the category's       *)
(* coefficient row is no error: get_price uses the coefficient 1.0 and     *)
(* returns the value it returns for douyin with the same category,         *)
(* follower count and celebrity flag.                                      *)
(***************************************************************************)
C7_UnknownPlatformNeutral ==
    (/\ Returned("get_price")
     /\ args.category \in Categories
     /\ args.platform \notin DOMAIN COEFF_MATRIX[args.category])
    => /\ result.status = "ok"
       /\ result = get_price("douyin", args.category, args.followers,
                             args.kwargs)

\* the price of sannong at 30,000 followers on an unlisted platform is 3,500
C7_Witness ==
    /\ Returned("get_price")
    /\ args = [platform |-> "weibo", category |-> "sannong",
               followers |-> 30000, kwargs |-> NoKwargs]
    /\ result = [status |-> "ok", value |-> FFromInt(3500)]

(***************************************************************************)
(* C8.  The core validates non-negativity: evaluating a price (get_price,  *)
(* get_all_platforms_prices) of a known category with a negative follower  *)
(* count raises an error instead of returning an extrapolated price.       *)
(* The code has no such check, and this is violated.                       *)
(***************************************************************************)
C8_NegativeFollowersFail ==
    (/\ Returned("get_price") \/ Returned("get_all_platforms_prices")
     /\ args.category \in Categories
     /\ args.followers < 0)
    => result.status \notin {"ok", "pending"}

(***************************************************************************)
(* C9.  Constructing a piecewise curve raises InvalidInput whenever the    *)
(* breakpoint list has fewer than 2 breakpoints or its x-values are not    *)
(* strictly increasing, and no curve object is produced.  The constructor  *)
(* checks nothing, and this is violated.                                   *)
(***************************************************************************)
C9_ConstructorValidates ==
    (/\ Returned("ContinuousPiecewiseFunction")
     /\ LET bp == args.breakpoints
        IN  \/ Len(bp) < 2
            \/ \E i \in 1..(Len(bp) - 1) : bp[i + 1][1] <= bp[i][1])
    => result.status = "InvalidInput"

\* the lower ends of the six brackets, in thousandths of ten-thousands
BracketFloors == <<0, 10 * 1000, 50 * 1000, 100 * 1000, 500 * 1000, 1000 * 1000>>

(***************************************************************************)
(* C10.  get_fan_range partitions [0, infinity): every follower value      *)
(* f >= 0 (in ten-thousands) gets exactly one of the six brackets, namely  *)
(* the one whose lower end is the greatest of 0, 10, 50, 100, 500, 1000    *)
(* not above f; so each boundary value belongs to the upper bracket        *)
(* (bracket(9.999) # bracket(10.0)) and every f >= 1000 is in the top      *)
(* bracket.                                                                *)
(***************************************************************************)
C10_BracketPartition ==
    /\ get_fan_range(9999) # get_fan_range(10000)
    /\ \A i \in 1..6 : \A j \in 1..6 : fan_ranges[i] = fan_ranges[j] => i = j
    /\ (Returned("get_fan_range") /\ args.fans_milli >= 0) =>
           LET f == args.fans_milli
               k == Cardinality({i \in 1..6 : BracketFloors[i] <= f})
           IN  /\ result = [status |-> "ok", value |-> fan_ranges[k]]
               /\ Cardinality({i \in 1..6 : fan_ranges[i] = result.value}) = 1
               /\ f >= 1000 * 1000 => result.value = "1000+"

\* the boundary value 10.0 classified: it is in the bracket 10-50
C10_Witness ==
    /\ Returned("get_fan_range")
    /\ args.fans_milli = 10 * 1000
    /\ result = [status |-> "ok", value |-> "10-50"]

(***************************************************************************)
(* C11.  get_expected_ad_count degrades gracefully: for every platform     *)
(* string that is none of the four platforms and for every label string    *)
(* that is none of the 32 labels it returns 0 and raises nothing, for any  *)
(* follower value.  For a label that names one of the two other columns    *)
(* of the DataFrame the code converts a non-numeral with int(), and this   *)
(* is violated.                                                            *)
(***************************************************************************)
C11_AdCountDegradesGracefully ==
    (/\ Returned("get_expected_ad_count")
     /\ \/ args.platform \notin SeqRange(MatrixPlatforms)
        \/ args.label \notin Categories)
    => result = [status |-> "ok", value |-> 0]

(***************************************************************************)
(* C12.  Development-ratio zero-guard: calculate_development_ratio returns *)
(* 0 and raises nothing whenever get_expected_ad_count returns 0 for the   *)
(* same platform, label and follower value, whatever the actual ad count;  *)
(* otherwise it returns actual_ads / expected rounded to 2 decimals: a     *)
(* float c / 100 with |c / 100 - actual_ads / expected| <= 0.005.          *)
(***************************************************************************)
C12_DevelopmentRatio ==
    Returned("calculate_development_ratio") =>
        LET expected == get_expected_ad_count(args.platform, args.label,
                                              args.fans_milli)
        IN  expected.status = "ok" =>
                IF expected.value = 0
                THEN result = [status |-> "ok", value |-> FZero]
                ELSE /\ result.status = "ok"
                     /\ result.value.s = 1
                     /\ LET c == Hundredths(result.value)
                        IN  /\ result.value = FFromRatio(c, 100)
                            /\ 2 * Abs(c * expected.value
                                       - 100 * args.actual_ads)
                                   <= expected.value

\* the guard at work: 5 actual ads on a platform the matrix does not have
C12_Witness ==
    /\ Returned("calculate_development_ratio")
    /\ args = [platform |-> "weibo", label |-> "sannong",
               fans_milli |-> 0, actual_ads |-> 5]
    /\ get_expected_ad_count("weibo", "sannong", 0).value = 0
    /\ result = [status |-> "ok", value |-> FZero]

\* whether |c / 100 - num / den| <= 0.005 + 1e-6, for a natural c and
\* bignums num and den > 0
WithinHalfCent(c, num, den) ==
    BCmp(BMul(BDist(BMul(BFromNat(c), den), BMulLimb(num, 100)),
              BFromNat(ToleranceInverse)),
         BMul(den, BFromNat(5001 * 100))) <= 0

\* the whole number a float holds (growth rates are whole percents)
WholeOf(f) == f.s * (Hundredths(f) \div 100)

\* fans / 10000 * (1 + g / 100)^y as a fraction
GrowthNum(fans, g, y) == BMul(BPow(BFromNat(100 + g), y), BFromNat(fans))

GrowthDen(y) == BMul(BPow(BFromNat(100), y), BFromNat(10000))

\* the i-th tuple of the list a call returned
Row(i) == result.value[i]

\* a call of `name` returned a value
ReturnedOk(name) == Returned(name) /\ result.status = "ok"

C14_FlatGrowthConstant ==
    (/\ Returned("predict_value")
     /\ args.growth_rate = Some(FZero)
     /\ ~args.single_ad_value.none
     /\ args.years = DefaultYears
     /\ args.platform \in DOMAIN platform_params
     /\ args.label \in DOMAIN label_params) =>
        /\ result.status = "ok"
        /\ Len(result.value) = Len(DefaultYears)
        /\ \A i \in 1..Len(DefaultYears) :
            /\ Row(i)[3] = Row(1)[3]
            /\ Row(i)[4] = Row(1)[4]

\* ft of the year y of the call in progress, and fans / 10000
Projected(y) ==
    ProjectedFans(FFromRatio(args.fans, 10000), args.platform, args.label, y,
                  args.growth_rate)

InitialFans == FFromRatio(args.fans, 10000)

(***************************************************************************)
(* C15.  Default regime (no growth rate given): for a valid platform and   *)
(* category and any initial follower count, the projected follower count   *)
(* ft of a requested year y >= 0 is not below the initial count and not    *)
(* above the projection of year y + 1; the reported counts, ft rounded to  *)
(* two decimals, are not below the rounded initial count and are ordered   *)
(* as their years are.                                                     *)
(***************************************************************************)
C15_DefaultGrowthMonotone ==
    (ReturnedOk("predict_value") /\ args.growth_rate.none) =>
        \A i \in 1..Len(args.years) :
            /\ FCmp(InitialFans, Projected(args.years[i])) <= 0
            /\ FCmp(Projected(args.years[i]), Projected(args.years[i] + 1)) <= 0
            /\ Row(i)[2] = NpRound2(Projected(args.years[i]))
            /\ FCmp(NpRound2(InitialFans), Row(i)[2]) <= 0
            /\ \A j \in 1..Len(args.years) :
                args.years[i] <= args.years[j] =>
                    FCmp(Row(i)[2], Row(j)[2]) <= 0

\* 0.8 ten-thousands on douyin: year 3, asked first, is reported above
\* year 1, and year 1 above the initial count
C15_Witness ==
    /\ ReturnedOk("predict_value")
    /\ args.growth_rate.none
    /\ args.fans = 8000
    /\ args.platform = "douyin"
    /\ args.years = <<3, 1>>
    /\ FCmp(Row(2)[2], Row(1)[2]) < 0
    /\ FCmp(NpRound2(InitialFans), Row(2)[2]) < 0

\* the mantissa of a float f brought to the exponent e <= f.e
Aligned(f, e) == BShl(f.m, f.e - e)

\* nt * sav * (1 + (at - a0) / a0 * d / 100) * 1.2 as a fraction, for a
\* float sav >= 0, naturals a0 > 0 and at, and d <= 100
RevenueNum(nt, sav, a0, at, d) ==
    BShl(BMul(IF BCmp(at, a0) >= 0
              THEN BAdd(BMulLimb(a0, 100), BMul(BSub(at, a0), BFromNat(d)))
              ELSE BSub(BMulLimb(a0, 100), BMul(BSub(a0, at), BFromNat(d))),
              BMul(sav.m, BFromNat(nt * 12))),
         Max(0, sav.e))

RevenueDen(sav, a0) == BShl(BMul(a0, BFromNat(1000)), Max(0, -sav.e))

\* whether c hundredths is that revenue rounded to two decimals, f0 and ft
\* being the initial and the projected follower count
RevenueMatches(c, nt, sav, f0, ft, d) ==
    WithinHalfCent(c,
                   RevenueNum(nt, sav, Aligned(f0, Min(f0.e, ft.e)),
                              Aligned(ft, Min(f0.e, ft.e)), d),
                   RevenueDen(sav, Aligned(f0, Min(f0.e, ft.e))))

\* the price of one ad the call in progress works with
CallAdValue ==
    SingleAdValueOf(args.single_ad_value, args.platform, args.label,
                    InitialFans).v

(***************************************************************************)
(* C16.  For every year of a projection from an initial follower count     *)
(* above 0, the annual revenue reported is a two-decimal float within      *)
(* 0.005 (and the float tolerance 1e-6) of adCount * adPrice * 1.2, where  *)
(* adCount is the ad count reported for that year, adPrice =               *)
(* single_ad_value * (1 + (ft - f0) / f0 * delta), delta is the category's *)
(* unit-price growth factor, f0 = fans / 10000 and ft is the unrounded     *)
(* projected follower count of that year.                                  *)
(***************************************************************************)
C16_AnnualRevenue ==
    (ReturnedOk("predict_value") /\ args.fans > 0) =>
        \A i \in 1..Len(args.years) :
            /\ Row(i)[4].s = 1
            /\ Row(i)[4] = FFromRatio(Hundredths(Row(i)[4]), 100)
            /\ RevenueMatches(Hundredths(Row(i)[4]), Row(i)[3], CallAdValue,
                              InitialFans, Projected(args.years[i]),
                              Hundredths(label_params[args.label][3]))

\* 8.8 ten-thousands on douyin, food, 10 per ad, growing by 10 percent:
\* 30 ads and 443.41 in year 3, 15 ads and 192.60 in year 1
C16_Witness ==
    /\ ReturnedOk("predict_value")
    /\ args.fans = 88000
    /\ args.platform = "douyin"
    /\ args.single_ad_value = Some(FFromInt(10))
    /\ args.growth_rate = Some(FFromInt(10))
    /\ args.years = <<3, 1>>
    /\ Row(1)[3] = 30
    /\ Row(2)[3] = 15
    /\ Hundredths(Row(1)[4]) = 44341
    /\ Hundredths(Row(2)[4]) = 19260

\* the strings that show c hundredths: with two decimals, or as a whole
\* number when it is one
AmountStrings(c, unit) ==
    {Fixed2(c) \o unit}
    \cup (IF c % 100 = 0 THEN {PyStr(c \div 100) \o unit} ELSE {})

\* the hundredths of the revenues of the first i rows, summed
RECURSIVE SumCents(_, _)
SumCents(rows, i) ==
    IF i = 0 THEN 0 ELSE SumCents(rows, i - 1) + Hundredths(rows[i][4])

\* whether the table t is the five rows and their total row
SummaryAgrees(t, rows) ==
    /\ Len(rows) = 5
    /\ t.years = <<"di1nian", "di2nian", "di3nian", "di4nian", "di5nian",
                   "wunianzongji">>
    /\ Len(t.fans) = 6 /\ Len(t.ad_counts) = 6 /\ Len(t.income) = 6
    /\ \A i \in 1..5 :
        /\ rows[i][1] = i
        /\ t.fans[i] \in AmountStrings(Hundredths(rows[i][2]), "wan")
        /\ t.ad_counts[i] = PyStr(rows[i][3]) \o "tiao"
        /\ t.income[i] \in AmountStrings(Hundredths(rows[i][4]), "wanyuan")
    /\ t.fans[6] = t.fans[5]
    /\ t.ad_counts[6]
       = PyStr(rows[1][3] + rows[2][3] + rows[3][3] + rows[4][3] + rows[5][3])
         \o "tiao"
    /\ t.income[6] \in AmountStrings(SumCents(rows, 5), "wanyuan")
    /\ t.total_value = FFromRatio(SumCents(rows, 5), 100)

(***************************************************************************)
(* C19.  When create_summary_table returns, each of its four columns has   *)
(* 6 entries: those of the years 1..5, in order, as predict_value gives    *)
(* them for the same arguments, and one total row after them, whose ad     *)
(* count is the sum of the five yearly ad counts, whose income is the sum  *)
(* of the five yearly revenues, equal to the returned total_value, and     *)
(* whose follower entry is that of year 5.                                 *)
(***************************************************************************)
C19_SummaryTable ==
    ReturnedOk("create_summary_table") =>
        SummaryAgrees(result.value,
                      predict_value(args.fans, args.platform, args.label,
                                    args.single_ad_value, DefaultYears,
                                    args.growth_rate).value)

\* 8.8 ten-thousands on douyin, food, 10 per ad, growing by 10 percent: 15
\* ads in year 1 and 30 in the years after make 135, and 2039.73 in all
C19_Witness ==
    /\ ReturnedOk("create_summary_table")
    /\ args.fans = 88000
    /\ args.single_ad_value = Some(FFromInt(10))
    /\ args.growth_rate = Some(FFromInt(10))
    /\ result.value.ad_counts
       = <<"15tiao", "30tiao", "30tiao", "30tiao", "30tiao", "135tiao">>
    /\ result.value.fans[6] = "14.17wan"
    /\ result.value.income[6] = "2039.73wanyuan"
    /\ Hundredths(result.value.total_value) = 203973

\* a call of the valuation returned or raised
ValuationReturned ==
    Returned("predict_value") \/ Returned("create_summary_table")

\* the platform and the label of the call are ones the valuation knows
ValidKeys ==
    /\ args.platform \in SeqRange(MatrixPlatforms)
    /\ args.label \in Categories

(***************************************************************************)
(* C17.  predict_value, and create_summary_table which calls it, raise     *)
(* ValueError, with no year computed, whenever the platform is not one of  *)
(* the four platforms of the growth model or the label is not one of the   *)
(* 32 categories.                                                          *)
(***************************************************************************)
C17_UnknownKeysFail ==
    (ValuationReturned /\ ~ValidKeys) => result = [status |-> "ValueError"]

\* a label that is no category, on a platform that is one
C17_Witness ==
    /\ Returned("create_summary_table")
    /\ args.platform = "douyin"
    /\ args.label = "unknown"
    /\ result = [status |-> "ValueError"]

(***************************************************************************)
(* C18.  For every valid platform, every valid category and every          *)
(* follower count >= 0, 0 included, predict_value raises no error and      *)
(* returns one tuple per requested year, under the built-in growth model   *)
(* and under a custom growth rate, with and without a single_ad_value.     *)
(***************************************************************************)
C18_ValuationTotal ==
    (Returned("predict_value") /\ ValidKeys) =>
        /\ result.status = "ok"
        /\ Len(result.value) = Len(args.years)

(***************************************************************************)
(* C20: the tables are never modified and no result aliases them           *)
(***************************************************************************)
\* the list, dict or value the last call returned
Outcome == IF "ref" \in DOMAIN result THEN heap[result.ref].items ELSE result

\* what the same call returns when it is the first call of the process
FirstOutcome ==
    LET d == Handle(Tables, op, args)
    IN  IF d.kind = "value" THEN d.value ELSE d.items

MatrixCell(platform, r, label) ==
    AdCountOf(QueryResult(Matrix, fan_ranges[r], platform), label)

\* C21: for each of the 4 platforms and 32 labels the cell of a fan range
\* is at most the cell of the next fan range, and a returned
\* get_expected_ad_count for such a platform and label is at least what it
\* returns for every smaller follower value.
C21_AdCountMonotone ==
    Returned("get_expected_ad_count")
    /\ args.platform \in SeqRange(MatrixPlatforms)
    /\ args.label \in Categories
    => /\ result.status = "ok"
       /\ \A r \in 1..(Len(fan_ranges) - 1) :
              /\ MatrixCell(args.platform, r, args.label).status = "ok"
              /\ MatrixCell(args.platform, r, args.label).value
                     <= MatrixCell(args.platform, r + 1, args.label).value
       /\ \A smaller \in MatrixFanInputs :
              smaller <= args.fans_milli =>
                  get_expected_ad_count(args.platform, args.label,
                                        smaller).value <= result.value

\* douyin, meishi: 15 ads below 100,000 followers, 30 at 100,000
C21_Witness ==
    /\ Returned("get_expected_ad_count")
    /\ args.platform = "douyin"
    /\ args.label = "meishi"
    /\ args.fans_milli = 10000
    /\ result = [status |-> "ok", value |-> 30]
    /\ get_expected_ad_count("douyin", "meishi", 9999).value = 15

(***************************************************************************)
(* C22: the three places label a ratio alike                               *)
(***************************************************************************)
\* the ratio the place computed, in hundredths
RatioCents ==
    Hundredths(calculate_development_ratio(args.platform, args.label,
                                           args.fans_milli,
                                           args.actual_ads).value)

\* the three strings of each place, lowest label first
LabelStrings ==
    [create_development_visualization |->
         <<"kaifabuzu", "zhengchangshuiping", "chongfenkaifa">>,
     create_ad_comparison_chart |->
         <<"rgba(255, 87, 51, 0.8)", "rgba(46, 204, 113, 0.8)",
           "rgba(52, 152, 219, 0.8)">>,
     development_details |->
         <<"underdeveloped_title", "normal_title", "overdeveloped_title">>]

\* C22: whichever of the three places ran, it shows its first string
\* (underdeveloped) exactly when ratio < 0.8, its second (normal) exactly
\* when 0.8 <= ratio <= 1.2 and its third (overdeveloped) exactly when
\* ratio > 1.2.
C22_RatioLabels ==
    pc = "return" /\ op \in LabelOps /\ result.status = "ok" =>
        /\ result.value = LabelStrings[op][1] <=> RatioCents < 80
        /\ result.value = LabelStrings[op][2]
               <=> 80 <= RatioCents /\ RatioCents <= 120
        /\ result.value = LabelStrings[op][3] <=> RatioCents > 120

\* 6 ads against 5 expected: the ratio 1.2 is still normal on the card
C22_Witness ==
    /\ Returned("development_details")
    /\ args.platform = "douyin"
    /\ args.label = "erciyan"
    /\ args.fans_milli = 0
    /\ args.actual_ads = 6
    /\ RatioCents = 120
    /\ result.value = "normal_title"

(***************************************************************************)
(* C23: get_categories                                                     *)
(***************************************************************************)
\* C23: the list get_categories returns has 32 entries, holds every key of
\* the curve table, and the pinyin key of each entry is less than the
\* pinyin key of the next (so no key is there twice and every call returns
\* the same list).
C23_CategoriesSorted ==
    Returned("get_categories") =>
        /\ result.status = "ok"
        /\ Len(Outcome) = 32
        /\ SeqRange(Outcome) = DOMAIN DOUYIN_FUNCTIONS
        /\ \A i \in 1..(Len(Outcome) - 1) :
               StrLess(pinyin_mapping[Outcome[i]],
                       pinyin_mapping[Outcome[i + 1]])

\* the list starts caijing, caiyijineng, erciyan and ends zhichang, while
\* the table starts with sannong
C23_Witness ==
    /\ Returned("get_categories")
    /\ SubSeq(Outcome, 1, 3) = <<"caijing", "caiyijineng", "erciyan">>
    /\ Outcome[32] = "zhichang"
    /\ heap.keys.items[1] = "sannong"

(***************************************************************************)
(* C24: get_follower_breakpoints                                           *)
(***************************************************************************)
\* C24: get_follower_breakpoints returns the follower counts of the
\* breakpoints of sannong, the first category of the table, in their
\* order, which is ascending: one more than the curve has segments.
C24_FollowerBreakpoints ==
    Returned("get_follower_breakpoints") =>
        LET bp == BreakpointTable[CategoryKeys[1]]
        IN  /\ result.status = "ok"
            /\ CategoryKeys[1] = "sannong"
            /\ Outcome = [i \in 1..Len(bp) |-> bp[i][1]]
            /\ Len(Outcome) = Len(DOUYIN_FUNCTIONS["sannong"]) + 1
            /\ \A i \in 1..(Len(Outcome) - 1) : Outcome[i] < Outcome[i + 1]

\* the seven follower counts
C24_Witness ==
    /\ Returned("get_follower_breakpoints")
    /\ Outcome = <<0, 60000, 300000, 750000, 3000000, 7500000, 20000000>>

(***************************************************************************)
(* C25: the ad count of a year is looked up at that year's follower count  *)
(***************************************************************************)
\* the place in fan_ranges of the fan range of a float count of
\* ten-thousands
RangeIndex(ft) ==
    IF FCmp(ft, FFromInt(10)) < 0 THEN 1
    ELSE IF FCmp(ft, FFromInt(50)) < 0 THEN 2
    ELSE IF FCmp(ft, FFromInt(100)) < 0 THEN 3
    ELSE IF FCmp(ft, FFromInt(500)) < 0 THEN 4
    ELSE IF FCmp(ft, FFromInt(1000)) < 0 THEN 5
    ELSE 6

\* C25: in every tuple that predict_value returns, the ad count is the cell
\* of the matrix for the fan range that holds the unrounded projected
\* follower count of that tuple's year, whatever fan range holds the
\* initial count.
C25_AdCountAtProjectedFans ==
    ReturnedOk("predict_value") =>
        \A i \in 1..Len(args.years) :
            Row(i)[3] = MatrixCell(args.platform,
                                   RangeIndex(Projected(args.years[i])),
                                   args.label).value

\* 8.8 ten-thousands growing by 10 percent: year 3 is in the range 10-50
\* with 30 ads, the initial count in the range 1-10 with 15
C25_Witness ==
    /\ ReturnedOk("predict_value")
    /\ args.fans = 88000
    /\ args.label = "meishi"
    /\ args.platform = "douyin"
    /\ ~args.growth_rate.none
    /\ args.years = <<3, 1>>
    /\ RangeIndex(InitialFans) = 1
    /\ RangeIndex(Projected(3)) = 2
    /\ Row(1)[3] = 30
    /\ MatrixCell("douyin", 1, "meishi").value = 15

(***************************************************************************)
(* C26: fan_limit is read and never used                                   *)
(***************************************************************************)
\* the follower ceiling of the platform of the call, in ten-thousands
Ceiling == platform_params[args.platform].fan_limit

\* the call cannot make the follower count fall: the built-in growth
\* model, or a growth rate that is not negative
Growing == args.growth_rate.none \/ args.growth_rate.value.s = 1

C27_CelebrityOnlyOneCategory ==
    (/\ Returned("get_price")
     /\ args.category \in Categories \ {"yingshizongyi"}
     /\ args.kwargs = Celebrity(TRUE))
    => /\ result.status = "ok"
       /\ result = get_price(args.platform, args.category, args.followers,
                             Celebrity(FALSE))
       /\ result = get_price(args.platform, args.category, args.followers,
                             NoKwargs)

\* meishi on kuaishou at 60,000 followers with the flag set: a price that
\* is not 0, the one without the flag
C27_Witness ==
    /\ Returned("get_price")
    /\ args.category = "meishi"
    /\ args.platform = "kuaishou"
    /\ args.followers = 60000
    /\ args.kwargs = Celebrity(TRUE)
    /\ result.status = "ok"
    /\ result.value # FZero
    /\ result = get_price("kuaishou", "meishi", 60000, NoKwargs)

(***************************************************************************)
(* C28: the range of each bracket                                          *)
(***************************************************************************)
\* whether get_fan_range returned the r-th bracket exactly when the
\* follower value (in thousandths) is from lo up to, and without, hi
ExactRange(r, lo, hi) ==
    result.value = fan_ranges[r]
        <=> lo <= args.fans_milli /\ args.fans_milli < hi

\* C28 as the specification has it: get_fan_range(f) returns 1-10 exactly
\* when 1 <= f < 10, 10-50 exactly when 10 <= f < 50, 50-100 exactly when
\* 50 <= f < 100, 100-500 exactly when 100 <= f < 500, 500-1000 exactly
\* when 500 <= f < 1000 and 1000+ exactly when f >= 1000.
C28_HalfOpenFromOne ==
    Returned("get_fan_range") =>
        /\ ExactRange(1, 1 * 1000, 10 * 1000)
        /\ ExactRange(2, 10 * 1000, 50 * 1000)
        /\ ExactRange(3, 50 * 1000, 100 * 1000)
        /\ ExactRange(4, 100 * 1000, 500 * 1000)
        /\ ExactRange(5, 500 * 1000, 1000 * 1000)
        /\ result.value = fan_ranges[6] <=> args.fans_milli >= 1000 * 1000

\* C28: get_fan_range(f) returns 1-10 exactly when f < 10 (values below 1
\* included), 10-50 exactly when 10 <= f < 50, 50-100 exactly when
\* 50 <= f < 100, 100-500 exactly when 100 <= f < 500, 500-1000 exactly
\* when 500 <= f < 1000 and 1000+ exactly when f >= 1000.
C28_HalfOpenRanges ==
    Returned("get_fan_range") =>
        /\ result.value = fan_ranges[1] <=> args.fans_milli < 10 * 1000
        /\ ExactRange(2, 10 * 1000, 50 * 1000)
        /\ ExactRange(3, 50 * 1000, 100 * 1000)
        /\ ExactRange(4, 100 * 1000, 500 * 1000)
        /\ ExactRange(5, 500 * 1000, 1000 * 1000)
        /\ result.value = fan_ranges[6] <=> args.fans_milli >= 1000 * 1000

\* 0.002 ten-thousands, 20 followers, is in the bracket 1-10
C28_Witness ==
    /\ Returned("get_fan_range")
    /\ args.fans_milli = 2
    /\ result.value = "1-10"

(***************************************************************************)
(* C29: prices never fall as the follower count rises                      *)
(***************************************************************************)
\* the largest follower count tried that is below f and not negative, or
\* f itself when there is none
FollowersBelow(f) ==
    LET lower == {g \in FollowerInputs(PriceParts) : 0 <= g /\ g < f}
    IN  IF lower = {} THEN f
        ELSE CHOOSE g \in lower : \A k \in lower : k <= g

\* the tabulated prices of every curve rise with the follower count
TabulatedPricesIncrease ==
    \A c \in Categories :
        \A i \in 1..(Len(BreakpointTable[c]) - 1) :
            /\ BreakpointTable[c][i][1] < BreakpointTable[c][i + 1][1]
            /\ BreakpointTable[c][i][2] < BreakpointTable[c][i + 1][2]

\* every coefficient of the matrix is above 0
CoefficientsPositive ==
    \A c \in DOMAIN COEFF_MATRIX :
        \A p \in DOMAIN COEFF_MATRIX[c] : FCmp(COEFF_MATRIX[c][p], FZero) = 1

\* C29: for every category, every platform (listed or not), both celebrity
\* settings and every follower count >= 0, get_price returns a price that
\* is not negative and not below the price at the next smaller follower
\* count (so, step by step, not below the price at any smaller count);
\* every curve's tabulated prices increase with the follower count and
\* every coefficient is positive.
C29_PriceMonotone ==
    (/\ Returned("get_price")
     /\ args.category \in Categories
     /\ args.followers >= 0)
    => /\ result.status = "ok"
       /\ FCmp(result.value, FZero) >= 0
       /\ LET below == get_price(args.platform, args.category,
                                 FollowersBelow(args.followers), args.kwargs)
          IN  /\ below.status = "ok"
              /\ FCmp(below.value, result.value) <= 0
       /\ TabulatedPricesIncrease
       /\ CoefficientsPositive

\* the celebrity price of yingshizongyi on a platform outside the matrix
\* at a breakpoint that is not the first: above 0 and above the price one
\* follower below
C29_Witness ==
    /\ Returned("get_price")
    /\ args.category = "yingshizongyi"
    /\ args.platform = "weibo"
    /\ args.kwargs = Celebrity(TRUE)
    /\ \E i \in 2..Len(BreakpointTable["yingshizongyi"]) :
           args.followers = BreakpointTable["yingshizongyi"][i][1]
    /\ FollowersBelow(args.followers) = args.followers - 1
    /\ result.status = "ok"
    /\ FCmp(result.value, FZero) = 1
    /\ FCmp(get_price("weibo", "yingshizongyi", args.followers - 1,
                      Celebrity(TRUE)).value, result.value) = -1

(***************************************************************************)
(* C30: the ad counts of later years                                       *)
(***************************************************************************)
\* the list of years of the call is in ascending order
YearsAscending ==
    \A i \in 1..Len(args.years) : \A j \in 1..Len(args.years) :
        i < j => args.years[i] <= args.years[j]

\* C30: for a valid platform and label, an initial follower count above 0
\* and years in ascending order, the ad count predict_value returns for a
\* year is not below the ad count it returns for any earlier year of the
\* list, under the built-in growth model and under a growth rate that is
\* not negative.
C30_AdCountsNonDecreasing ==
    (/\ Returned("predict_value")
     /\ args.platform \in DOMAIN platform_params
     /\ args.label \in DOMAIN label_params
     /\ args.fans > 0
     /\ Growing
     /\ YearsAscending)
    => /\ result.status = "ok"
       /\ Len(result.value) = Len(args.years)
       /\ \A i \in 1..Len(args.years) : \A j \in 1..Len(args.years) :
              i < j => Row(i)[3] <= Row(j)[3]

\* 8.8 ten-thousands growing by 10 percent a year: 9.68 after one year, in
\* the range 1-10 with 15 ads, and 10.65 after two, in the range 10-50
\* with 30 ads
C30_Witness ==
    /\ ReturnedOk("predict_value")
    /\ args.fans = 88000
    /\ args.platform = "douyin"
    /\ args.label = "meishi"
    /\ args.years = DefaultYears
    /\ ~args.growth_rate.none
    /\ args.growth_rate.value = FFromInt(10)
    /\ Row(1)[3] = 15
    /\ Row(2)[3] = 30
    /\ Row(5)[3] = 30

====
